---- MODULE Spec2Model ----
(***************************************************************************)
(* Flow execution engine of the Amazon Connect call simulator.             *)
(*                                                                         *)
(* Go strings that travel through stores, prompts and events are modelled  *)
(* as texts: sequences of tokens, a token being either a literal fragment  *)
(* or a "$.<Namespace>.<key>" reference.  Enumerated Go string types       *)
(* (ModuleType, ModuleTarget, ModuleBranchCondition, SystemKey, ModuleID)  *)
(* and store keys are TLA+ strings.  A nil *flow.ModuleID is NoModule, a   *)
(* nil *string is NilStr, a nil error is NoErr.                            *)
(***************************************************************************)
EXTENDS Integers, Sequences, FiniteSets, TLC

VARIABLES
    flows,      \* Simulator.flows: flow name -> loaded flow
    modules,    \* Simulator.modules: module ID -> loaded module
    telFlow,    \* Simulator.telFlow: dialled number -> the flow a call to it starts in
    encrypt,    \* Simulator.encrypt / testCallState.encrypt: the encryption hook
    isInHours,  \* Simulator.isInHours / testCallState.inHours: the hours-of-operation hook
    callState,  \* lifecycle of the call: NoCall, Ready, Running, WaitingForInput, Ended, Crashed
    cur,        \* the block the driving loop is at (NoModule when there is none)
    callErr,    \* the error surfaced to the owner of the call (NoErr when none)
    st,         \* the call's connector state (testCallState / Call)
    runLog,     \* history: one entry per run of the driving loop (block, runner, result, events emitted)
    received,   \* what the blocked receive of the call returns when the call thread resumes
    api,        \* history: the last call of StartCall or SetStartingFlowFor and the error it returned
    tMod,       \* module test: the module under test
    tRunner,    \* module test: the runner the module is unmarshalled as
    tPhase,     \* module test: "none", "ready", "done"
    tNext,      \* module test: the successor the run returned
    tErr,       \* module test: the error the run returned
    tPre,       \* module test: the connector state before the run
    glList,     \* GetLink test: the branch list
    glLabel,    \* GetLink test: the label looked up
    glPhase,    \* GetLink test: "none", "ready", "done"
    glResult,   \* GetLink test: what GetLink returned
    evLog,      \* matcher test: the event log the checks run on
    cursor,     \* matcher test: how many events of the log the ordered checks have consumed
    checks,     \* matcher test: history, one entry per check run
    sText,      \* substitution test: the text handed to the resolver
    sPhase,     \* substitution test: "none", "ready", "once", "twice"
    sOut,       \* substitution test: the result of substituting in sText
    sAgain,     \* substitution test: the result of substituting in sOut
    sNs,        \* resolution test: the namespace of the parameter whose value is sText
    calls,      \* several calls of one simulator: call number -> the call
    lambdas,    \* Simulator.lambdas: registered name -> handler
    invoked     \* history: one entry per InvokeLambda, with the handler that was run

vars == <<flows, modules, telFlow, encrypt, isInHours, callState, cur, callErr, st, runLog,
          received, api, tMod, tRunner, tPhase, tNext, tErr, tPre,
          glList, glLabel, glPhase, glResult,
          evLog, cursor, checks, sText, sPhase, sOut, sAgain, sNs, calls,
          lambdas, invoked>>

simVars == <<flows, modules, telFlow, encrypt, isInHours>>
callVars == <<callState, cur, callErr, runLog, received>>
testVars == <<tMod, tRunner, tPhase, tNext, tErr, tPre>>
glVars == <<glList, glLabel, glPhase, glResult>>
matchVars == <<evLog, cursor, checks>>
substVars == <<sText, sPhase, sOut, sAgain, sNs>>
lambdaVars == <<lambdas, invoked>>
restVars == <<matchVars, substVars, calls, lambdaVars>>

-----------------------------------------------------------------------------
(* Bounds of the model *)

MaxBranches == 3
MaxRuns == 6
MaxEvents == 3
MaxChecks == 2
MaxTokens == 3
MaxCalls == 2

-----------------------------------------------------------------------------
(* flow/flow.go: the closed vocabularies *)

ModuleStoreUserInput == "StoreUserInput"
ModuleCheckAttribute == "CheckAttribute"
ModuleTransfer == "Transfer"
ModulePlayPrompt == "PlayPrompt"
ModuleDisconnect == "Disconnect"
ModuleSetQueue == "SetQueue"
ModuleGetUserInput == "GetUserInput"
ModuleSetAttributes == "SetAttributes"
ModuleInvokeExternalResource == "InvokeExternalResource"
ModuleCheckHoursOfOperation == "CheckHoursOfOperation"
ModuleSetVoice == "SetVoice"

KnownTypes ==
    { ModuleStoreUserInput, ModuleCheckAttribute, ModuleTransfer, ModulePlayPrompt,
      ModuleDisconnect, ModuleSetQueue, ModuleGetUserInput, ModuleSetAttributes,
      ModuleInvokeExternalResource, ModuleCheckHoursOfOperation, ModuleSetVoice }

ModuleDeprecatedSetScreenPop == "SetScreenPop"
ModuleDeprecatedStoreCustomerInput == "StoreCustomerInput"
ModuleDeprecatedPlayAudio == "PlayAudio"
ModuleDeprecatedTransferToFlow == "TransferToFlow"
ModuleDeprecatedCustomerInQueue == "CustomerInQueue"

DeprecatedTypes ==
    { ModuleDeprecatedSetScreenPop, ModuleDeprecatedStoreCustomerInput,
      ModuleDeprecatedPlayAudio, ModuleDeprecatedTransferToFlow,
      ModuleDeprecatedCustomerInQueue }

\* A type tag the simulator has never heard of (TestMakeRunner's passthrough case).
UnknownType == "WhatIsThisIDontEven"

AllTypes == KnownTypes \cup DeprecatedTypes \cup {UnknownType}

TargetFlow == "Flow"
TargetLambda == "Lambda"
TargetQueue == "Queue"
TargetDigits == "Digits"
TargetPhoneNumber == "PhoneNumber"
NoTarget == ""

NamespaceExternal == "External"
NamespaceSystem == "System"
NamespaceUserDefined == "User Defined"
NoNamespace == ""

BranchSuccess == "Success"
BranchError == "Error"
BranchNoMatch == "NoMatch"
BranchEvaluate == "Evaluate"
BranchTimeout == "Timeout"
BranchTrue == "True"
BranchFalse == "False"
BranchAtCapacity == "AtCapacity"

BranchConditions ==
    { BranchSuccess, BranchError, BranchNoMatch, BranchEvaluate, BranchTimeout,
      BranchTrue, BranchFalse, BranchAtCapacity }

SystemLastUserInput == "Stored customer input"
SystemQueueName == "Queue.Name"
SystemQueueARN == "Queue.ARN"

NoModule == "<nil>"
NoErr == <<>>
NilStr == [found |-> FALSE, val |-> <<>>]
Ptr(text) == [found |-> TRUE, val |-> text]

-----------------------------------------------------------------------------
(* flow/flow.go: parameter values, parameters, branches, modules *)

\* interface{} values of a parameter: a JSON string, boolean, number or null.
StrV(text) == [t |-> "string", s |-> text, b |-> FALSE, n |-> 0]
BoolV(b) == [t |-> "bool", s |-> <<>>, b |-> b, n |-> 0]
NumV(n) == [t |-> "number", s |-> <<>>, b |-> FALSE, n |-> n]
NilV == [t |-> "nil", s |-> <<>>, b |-> FALSE, n |-> 0]

Param(name, value, ns, rn) ==
    [name |-> name, key |-> "", value |-> value, namespace |-> ns, resourceName |-> rn]

\* A key/value parameter (an Attribute of SetAttributes, a lambda input).
KeyParam(name, key, value, ns) ==
    [name |-> name, key |-> key, value |-> value, namespace |-> ns, resourceName |-> <<>>]

\* The zero ModuleParameter{}.
ZeroParam == Param("", NilV, NoNamespace, <<>>)

Branch(cond, to) == [condition |-> cond, transition |-> to]

Module(id, type, target, branches, parameters) ==
    [id |-> id, type |-> type, target |-> target,
     branches |-> branches, parameters |-> parameters]

\* ModuleBranchList.GetLink: the transition of the first branch named `named`.
RECURSIVE GetLinkFrom(_, _, _)
GetLinkFrom(mbl, named, i) ==
    IF i > Len(mbl) THEN NoModule
    ELSE IF mbl[i].condition = named THEN mbl[i].transition
    ELSE GetLinkFrom(mbl, named, i + 1)

\* A lookup that keeps scanning and so returns the last branch with the label.
RECURSIVE GetLinkLastFrom(_, _, _)
GetLinkLastFrom(mbl, named, i) ==
    IF i < 1 THEN NoModule
    ELSE IF mbl[i].condition = named THEN mbl[i].transition
    ELSE GetLinkLastFrom(mbl, named, i - 1)

GetLinkLast(mbl, named) == GetLinkLastFrom(mbl, named, Len(mbl))

GetLink(mbl, named) == GetLinkFrom(mbl, named, 1)

\* ModuleParameterList.Get: the first parameter named `named`, and whether there is one.
RECURSIVE ParamGetFrom(_, _, _)
ParamGetFrom(mpl, named, i) ==
    IF i > Len(mpl) THEN [p |-> ZeroParam, ok |-> FALSE]
    ELSE IF mpl[i].name = named THEN [p |-> mpl[i], ok |-> TRUE]
    ELSE ParamGetFrom(mpl, named, i + 1)

ParamGet(mpl, named) == ParamGetFrom(mpl, named, 1)

-----------------------------------------------------------------------------
(* Texts *)

T(tok) == <<tok>>
EmptyText == <<>>

\* The "$.<Namespace>.<key>" references that occur in the texts of the model.
RefTokens == { "$.External.digits", "$.External.missing", "$.System.Queue.Name" }

RefNs(tok) ==
    CASE tok = "$.External.digits" -> NamespaceExternal
      [] tok = "$.External.missing" -> NamespaceExternal
      [] tok = "$.System.Queue.Name" -> NamespaceSystem
      [] OTHER -> NoNamespace

RefKey(tok) ==
    CASE tok = "$.External.digits" -> "digits"
      [] tok = "$.External.missing" -> "missing"
      [] tok = "$.System.Queue.Name" -> SystemQueueName
      [] OTHER -> ""

\* The textual form of a raw value used as a lookup key.
KeyOf(text) == IF Len(text) = 1 THEN text[1] ELSE "<composite>"

\* strconv.Atoi on the numerals the model uses; anything else is a syntax error.
Atoi(text) ==
    CASE text = T("7") -> [ok |-> TRUE, n |-> 7]
      [] text = T("5") -> [ok |-> TRUE, n |-> 5]
      [] OTHER -> [ok |-> FALSE, n |-> 0]

\* base64.StdEncoding.EncodeToString: an injective encoding that never returns its input.
Base64(bytes) == <<"base64(">> \o bytes \o <<")">>

-----------------------------------------------------------------------------
(* Errors *)

WrongTypeErr(type, runner) == <<"module of type", type, "being run as", runner>>
MissingParamErr(name) == <<"missing parameter", name>>
MissingNamedParamErr(name) == <<"missing", name, "parameter">>
UnhandledTargetErr(target) == <<"unhandled transfer target:", target>>
AtoiErr == <<"strconv.Atoi: invalid syntax">>
PanicErr == <<"panic: interface conversion">>

-----------------------------------------------------------------------------
(* Events (package event) *)

TransferQueueType == "TransferQueue"
TransferFlowType == "TransferFlow"
TransferNumberType == "TransferNumber"

QueueTransferEvent(arn, name) ==
    [type |-> TransferQueueType, arn |-> arn, name |-> name, tel |-> EmptyText]
FlowTransferEvent(arn, name) ==
    [type |-> TransferFlowType, arn |-> arn, name |-> name, tel |-> EmptyText]
NumberTransferEvent(tel) ==
    [type |-> TransferNumberType, arn |-> EmptyText, name |-> EmptyText, tel |-> tel]

-----------------------------------------------------------------------------
(* The connector state of one call, and the CallConnector operations on it.  *)
(* nSend, nRecv and encLog are history fields: how often Send and Receive    *)
(* were called and with which arguments the encryption hook was called.      *)

NoRcv == [count |-> 0, timeout |-> 0, terminator |-> ""]

NewState(i, external, contactData, system) ==
    [i |-> i, o |-> EmptyText, oSSML |-> FALSE, rcv |-> NoRcv,
     external |-> external, contactData |-> contactData, system |-> system,
     events |-> <<>>, nSend |-> 0, nRecv |-> 0, encLog |-> <<>>]

EmptyStore == [k \in {} |-> EmptyText]

MapGet(map, key) == IF key \in DOMAIN map THEN Ptr(map[key]) ELSE NilStr
MapSet(map, key, value) ==
    [k \in DOMAIN map \cup {key} |-> IF k = key THEN value ELSE map[k]]

Send(s, text, ssml) == [s EXCEPT !.o = text, !.oSSML = ssml, !.nSend = @ + 1]

\* A receive that reports input before the timeout although the test input is "Timeout".
ReceiveNoTimeout(s, count, timeout, terminator) ==
    [st |-> [s EXCEPT !.rcv = [count |-> count, timeout |-> timeout,
                               terminator |-> terminator],
                      !.nRecv = @ + 1],
     input |-> s.i,
     ok |-> s.i # EmptyText]

\* A receive that does not record what was asked for.
ReceiveUnrecorded(s, count, timeout, terminator) ==
    [st |-> [s EXCEPT !.nRecv = @ + 1],
     input |-> IF s.i = EmptyText THEN EmptyText ELSE s.i,
     ok |-> IF s.i = EmptyText THEN FALSE ELSE s.i # T("Timeout")]

\* testCallState.Receive: records the request; "" and "Timeout" stand for no input.
\* The timeout is kept in seconds.
Receive(s, count, timeout, terminator) ==
    [st |-> [s EXCEPT !.rcv = [count |-> count, timeout |-> timeout,
                               terminator |-> terminator],
                      !.nRecv = @ + 1],
     input |-> IF s.i = EmptyText THEN EmptyText ELSE s.i,
     ok |-> IF s.i = EmptyText THEN FALSE ELSE s.i # T("Timeout")]

\* A GetExternal that answers a miss with the empty string in place of nil.
GetExternalEmptyOnMiss(s, key) ==
    IF key \in DOMAIN s.external THEN Ptr(s.external[key]) ELSE Ptr(EmptyText)

GetExternal(s, key) == MapGet(s.external, key)
GetContactData(s, key) == MapGet(s.contactData, key)
GetSystem(s, key) == MapGet(s.system, key)

SetContactData(s, key, value) ==
    [s EXCEPT !.contactData = MapSet(s.contactData, key, value)]

\* A SetSystem that drops the write.
SetSystemDropped(s, key, value) == s

\* A SetSystem that starts the store afresh with the one key.
SetSystemAfresh(s, key, value) == [s EXCEPT !.system = MapSet(EmptyStore, key, value)]

SetSystem(s, key, value) == [s EXCEPT !.system = MapSet(s.system, key, value)]

\* An Emit that replaces the log by the new event.
EmitOverwrite(s, evt) == [s EXCEPT !.events = <<evt>>]

Emit(s, evt) == [s EXCEPT !.events = Append(s.events, evt)]

\* The encryption hooks of the model: the default of New() and the test's tagging hook.
EncryptionHooks == {"identity", "tagged"}

EncryptHook(hook, in, keyID, cert) ==
    IF hook = "identity" THEN in
    ELSE <<"<encrypt>">> \o in \o <<"</encrypt>">>

\* An Encrypt that hands the hook the certificate in place of the key id.
EncryptSwapped(s, hook, in, keyID, cert) ==
    [st |-> [s EXCEPT !.encLog = Append(@, [in |-> in, keyID |-> cert, cert |-> cert])],
     out |-> EncryptHook(hook, in, cert, cert)]

\* Encrypt: hands its three arguments to the hook and returns the hook's bytes.
Encrypt(s, hook, in, keyID, cert) ==
    [st |-> [s EXCEPT !.encLog = Append(@, [in |-> in, keyID |-> keyID, cert |-> cert])],
     out |-> EncryptHook(hook, in, keyID, cert)]

\* A GetFlowStart that answers with the start of some loaded flow, whatever the name.
GetFlowStartAny(fl, flowName) ==
    IF DOMAIN fl # {} THEN fl[CHOOSE name \in DOMAIN fl : TRUE].start ELSE NoModule

\* simulatorConnector.GetFlowStart: the start block of the loaded flow of that name.
GetFlowStart(fl, flowName) ==
    IF flowName \in DOMAIN fl THEN fl[flowName].start ELSE NoModule

-----------------------------------------------------------------------------
(* Parameter resolution (the resolver of the module package) *)

NamespaceGet(s, ns, key) ==
    CASE ns = NamespaceExternal -> GetExternal(s, key)
      [] ns = NamespaceSystem -> GetSystem(s, key)
      [] ns = NamespaceUserDefined -> GetContactData(s, key)
      [] OTHER -> NilStr

\* One token of a text: a reference whose key is found is replaced by the stored
\* value, every other token stays as it is.
SubstituteToken(s, tok) ==
    IF tok \in RefTokens /\ NamespaceGet(s, RefNs(tok), RefKey(tok)).found
    THEN NamespaceGet(s, RefNs(tok), RefKey(tok)).val
    ELSE T(tok)

RECURSIVE SubstituteFrom(_, _, _)
SubstituteFrom(s, text, i) ==
    IF i > Len(text) THEN EmptyText
    ELSE SubstituteToken(s, text[i]) \o SubstituteFrom(s, text, i + 1)

\* Inline template substitution: one pass over the references of the text.
Substitute(s, text) == SubstituteFrom(s, text, 1)

\* A text parameter: the raw text, or the text stored under it as a key when the
\* parameter has a namespace ("" on a miss), with its references substituted.
ResolveText(s, p) ==
    IF p.namespace = NoNamespace THEN Substitute(s, p.value.s)
    ELSE IF NamespaceGet(s, p.namespace, KeyOf(p.value.s)).found
         THEN Substitute(s, NamespaceGet(s, p.namespace, KeyOf(p.value.s)).val)
         ELSE EmptyText

\* A lookup that takes the value it finds out of the store.
AfterLookupConsuming(s, ns, key) ==
    CASE ns = NamespaceExternal ->
            [s EXCEPT !.external = [k \in DOMAIN s.external \ {key} |-> s.external[k]]]
      [] ns = NamespaceSystem ->
            [s EXCEPT !.system = [k \in DOMAIN s.system \ {key} |-> s.system[k]]]
      [] ns = NamespaceUserDefined ->
            [s EXCEPT !.contactData = [k \in DOMAIN s.contactData \ {key} |-> s.contactData[k]]]
      [] OTHER -> s

\* The connector state a lookup leaves: GetExternal, GetContactData and GetSystem
\* read one key of a map and assign nothing.
AfterLookup(s, ns, key) == s

\* The connector state the substitution of the text from token i on leaves: one
\* lookup for every reference.
RECURSIVE AfterSubstituteFrom(_, _, _)
AfterSubstituteFrom(s, text, i) ==
    IF i > Len(text) THEN s
    ELSE IF text[i] \in RefTokens
    THEN AfterSubstituteFrom(AfterLookup(s, RefNs(text[i]), RefKey(text[i])), text, i + 1)
    ELSE AfterSubstituteFrom(s, text, i + 1)

\* The connector state the resolution of a text parameter leaves.
AfterResolveText(s, p) ==
    IF p.namespace = NoNamespace THEN AfterSubstituteFrom(s, p.value.s, 1)
    ELSE LET got == NamespaceGet(s, p.namespace, KeyOf(p.value.s))
             s1 == AfterLookup(s, p.namespace, KeyOf(p.value.s))
         IN  IF got.found THEN AfterSubstituteFrom(s1, got.val, 1) ELSE s1

-----------------------------------------------------------------------------
(* Runners.  A run returns the successor, the error and the connector state  *)
(* it leaves; panicked says that the run did not return but panicked.        *)

Runners ==
    { "storeUserInput", "checkAttribute", "transfer", "playPrompt", "disconnect",
      "setQueue", "getUserInput", "setAttributes", "invokeExternalResource",
      "checkHoursOfOperation", "setVoice", "passthrough" }

\* The type a runner implements; the passthrough runner implements none.
RunnerType(runner) ==
    CASE runner = "storeUserInput" -> ModuleStoreUserInput
      [] runner = "checkAttribute" -> ModuleCheckAttribute
      [] runner = "transfer" -> ModuleTransfer
      [] runner = "playPrompt" -> ModulePlayPrompt
      [] runner = "disconnect" -> ModuleDisconnect
      [] runner = "setQueue" -> ModuleSetQueue
      [] runner = "getUserInput" -> ModuleGetUserInput
      [] runner = "setAttributes" -> ModuleSetAttributes
      [] runner = "invokeExternalResource" -> ModuleInvokeExternalResource
      [] runner = "checkHoursOfOperation" -> ModuleCheckHoursOfOperation
      [] runner = "setVoice" -> ModuleSetVoice
      [] OTHER -> ""

Result(next, err, s) == [next |-> next, err |-> err, st |-> s, panicked |-> FALSE]
Panic(s) == [next |-> NoModule, err |-> PanicErr, st |-> s, panicked |-> TRUE]

\* The connector a runner runs against: the simulator's configuration, and for a
\* call of the engine the outcome rx of the receive the driver decides.
Conn(fl, hook, hours, isTest, rx) ==
    [flows |-> fl, encrypt |-> hook, isInHours |-> hours, isTest |-> isTest, rx |-> rx]

\* pending says that a receive has returned and the call thread has yet to go on.
NoRx == [input |-> EmptyText, ok |-> FALSE, pending |-> FALSE]

\* disconnect.Run
RunDisconnect(m, s, conn) ==
    IF m.type # ModuleDisconnect THEN Result(NoModule, WrongTypeErr(m.type, "disconnect"), s)
    ELSE Result(NoModule, NoErr, s)

\* A setQueue that stores the name under Queue.ARN and the ARN under Queue.Name.
RunSetQueueSwapped(m, s, conn) ==
    IF m.type # ModuleSetQueue THEN Result(NoModule, WrongTypeErr(m.type, "setQueue"), s)
    ELSE LET g == ParamGet(m.parameters, "Queue") IN
         IF ~g.ok THEN Result(NoModule, MissingNamedParamErr("Queue"), s)
         ELSE IF g.p.value.t # "string" THEN Panic(s)
         ELSE Result(GetLink(m.branches, BranchSuccess), NoErr,
                     SetSystem(SetSystem(s, SystemQueueARN, g.p.resourceName),
                               SystemQueueName, g.p.value.s))

\* A setQueue for which a block without a Success branch is an error.
RunSetQueueNeedsSuccess(m, s, conn) ==
    IF m.type # ModuleSetQueue THEN Result(NoModule, WrongTypeErr(m.type, "setQueue"), s)
    ELSE LET g == ParamGet(m.parameters, "Queue") IN
         IF ~g.ok THEN Result(NoModule, MissingNamedParamErr("Queue"), s)
         ELSE IF g.p.value.t # "string" THEN Panic(s)
         ELSE IF GetLink(m.branches, BranchSuccess) = NoModule
         THEN Result(NoModule, MissingNamedParamErr("Success"), s)
         ELSE Result(GetLink(m.branches, BranchSuccess), NoErr,
                     SetSystem(SetSystem(s, SystemQueueARN, g.p.value.s),
                               SystemQueueName, g.p.resourceName))

\* setQueue.Run
RunSetQueue(m, s, conn) ==
    IF m.type # ModuleSetQueue THEN Result(NoModule, WrongTypeErr(m.type, "setQueue"), s)
    ELSE LET g == ParamGet(m.parameters, "Queue") IN
         IF ~g.ok THEN Result(NoModule, MissingNamedParamErr("Queue"), s)
         ELSE IF g.p.value.t # "string" THEN Panic(s)
         ELSE Result(GetLink(m.branches, BranchSuccess), NoErr,
                     SetSystem(SetSystem(s, SystemQueueARN, g.p.value.s),
                               SystemQueueName, g.p.resourceName))

\* transfer.Run, Flow target
TransferFlow(m, s, conn) ==
    LET g == ParamGet(m.parameters, "ContactFlowId")
        next == GetFlowStart(conn.flows, g.p.resourceName)
    IN  IF ~g.ok THEN Result(NoModule, MissingNamedParamErr("ContactFlowId"), s)
        ELSE IF next = NoModule THEN Result(GetLink(m.branches, BranchError), NoErr, s)
        ELSE IF g.p.value.t # "string" THEN Panic(s)
        ELSE Result(next, NoErr, Emit(s, FlowTransferEvent(g.p.value.s, g.p.resourceName)))

\* transfer.Run, Queue target
TransferQueue(m, s, conn) ==
    LET queue == GetSystem(s, SystemQueueName)
        arn == GetSystem(s, SystemQueueARN)
    IN  IF ~queue.found \/ ~arn.found
        THEN Result(GetLink(m.branches, BranchError), NoErr, s)
        ELSE Result(NoModule, NoErr, Emit(s, QueueTransferEvent(arn.val, queue.val)))

\* A PhoneNumber transfer that goes on to the Success branch also when it is blind.
TransferPhoneNumberNotBlind(m, s, conn) ==
    LET blind == ParamGet(m.parameters, "BlindTransfer")
        num == ParamGet(m.parameters, "PhoneNumber")
    IN  IF ~blind.ok \/ blind.p.value.t # "bool"
        THEN Result(NoModule, MissingNamedParamErr("BlindTransfer"), s)
        ELSE IF ~num.ok \/ num.p.value.t # "string"
        THEN Result(NoModule, MissingNamedParamErr("PhoneNumber"), s)
        ELSE Result(GetLink(m.branches, BranchSuccess), NoErr,
                    Emit(s, NumberTransferEvent(num.p.value.s)))

\* transfer.Run, PhoneNumber target
TransferPhoneNumber(m, s, conn) ==
    LET blind == ParamGet(m.parameters, "BlindTransfer")
        num == ParamGet(m.parameters, "PhoneNumber")
    IN  IF ~blind.ok \/ blind.p.value.t # "bool"
        THEN Result(NoModule, MissingNamedParamErr("BlindTransfer"), s)
        ELSE IF ~num.ok \/ num.p.value.t # "string"
        THEN Result(NoModule, MissingNamedParamErr("PhoneNumber"), s)
        ELSE IF blind.p.value.b
        THEN Result(NoModule, NoErr, Emit(s, NumberTransferEvent(num.p.value.s)))
        ELSE Result(GetLink(m.branches, BranchSuccess), NoErr,
                    Emit(s, NumberTransferEvent(num.p.value.s)))

\* A transfer that does not look at the type tag of its block.
RunTransferUnchecked(m, s, conn) ==
    CASE m.target = TargetFlow -> TransferFlow(m, s, conn)
      [] m.target = TargetQueue -> TransferQueue(m, s, conn)
      [] m.target = TargetPhoneNumber -> TransferPhoneNumber(m, s, conn)
      [] OTHER -> Result(NoModule, UnhandledTargetErr(m.target), s)

\* transfer.Run
RunTransfer(m, s, conn) ==
    IF m.type # ModuleTransfer THEN Result(NoModule, WrongTypeErr(m.type, "transfer"), s)
    ELSE CASE m.target = TargetFlow -> TransferFlow(m, s, conn)
           [] m.target = TargetQueue -> TransferQueue(m, s, conn)
           [] m.target = TargetPhoneNumber -> TransferPhoneNumber(m, s, conn)
           [] OTHER -> Result(NoModule, UnhandledTargetErr(m.target), s)

\* Call.Receive of the engine: records the request and blocks; the driver's input,
\* or the elapsed timeout, decides what it returns.
CallReceive(s, count, timeout, terminator, rx) ==
    [st |-> Receive(s, count, timeout, terminator).st, input |-> rx.input, ok |-> rx.ok]

ConnReceive(conn, s, count, timeout, terminator) ==
    IF conn.isTest THEN Receive(s, count, timeout, terminator)
    ELSE CallReceive(s, count, timeout, terminator, conn.rx)

\* storeUserInput: the decoded parameters, or the error of decoding them.
SUIParams(m, s) ==
    LET text == ParamGet(m.parameters, "Text")
        tts == ParamGet(m.parameters, "TextToSpeechType")
        timeout == ParamGet(m.parameters, "Timeout")
        maxDigits == ParamGet(m.parameters, "MaxDigits")
        enc == ParamGet(m.parameters, "EncryptEntry")
        term == ParamGet(m.parameters, "TerminatorDigits")
        keyID == ParamGet(m.parameters, "EncryptionKeyId")
        cert == ParamGet(m.parameters, "EncryptionKey")
        err == CASE ~text.ok \/ text.p.value.t # "string" -> MissingParamErr("Text")
                 [] ~timeout.ok \/ timeout.p.value.t # "string" -> MissingParamErr("Timeout")
                 [] ~maxDigits.ok \/ maxDigits.p.value.t # "number" -> MissingParamErr("MaxDigits")
                 [] ~enc.ok \/ enc.p.value.t # "bool" -> MissingParamErr("EncryptEntry")
                 [] ~Atoi(timeout.p.value.s).ok -> AtoiErr
                 [] OTHER -> NoErr
    IN  [err |-> err,
         text |-> ResolveText(s, text.p),
         ssml |-> tts.ok /\ tts.p.value.s = T("ssml"),
         timeout |-> Atoi(timeout.p.value.s).n,
         maxDigits |-> maxDigits.p.value.n,
         encrypt |-> enc.p.value.b,
         terminator |-> IF term.ok /\ term.p.value.s # EmptyText
                        THEN term.p.value.s[1] ELSE "#",
         keyID |-> keyID.p.value.s,
         cert |-> cert.p.value.s]

\* storeUserInput: the prompt is sent and the receive is requested.
SUIAsk(m, s, conn) ==
    LET p == SUIParams(m, s) IN
    ConnReceive(conn, Send(s, p.text, p.ssml), p.maxDigits, p.timeout, p.terminator)

\* storeUserInput: what happens once the receive has returned (input, ok).
SUIStore(m, s, conn, input, ok) ==
    LET p == SUIParams(m, s)
        e == Encrypt(s, conn.encrypt, input, p.keyID, p.cert)
    IN  IF ~ok THEN Result(GetLink(m.branches, BranchSuccess), NoErr, s)
        ELSE IF p.encrypt
        THEN Result(GetLink(m.branches, BranchSuccess), NoErr,
                    SetSystem(e.st, SystemLastUserInput, Base64(e.out)))
        ELSE Result(GetLink(m.branches, BranchSuccess), NoErr,
                    SetSystem(s, SystemLastUserInput, input))

\* storeUserInput.Run
RunStoreUserInput(m, s, conn) ==
    IF m.type # ModuleStoreUserInput
    THEN Result(NoModule, WrongTypeErr(m.type, "storeUserInput"), s)
    ELSE IF SUIParams(m, s).err # NoErr THEN Result(NoModule, SUIParams(m, s).err, s)
    ELSE LET a == SUIAsk(m, s, conn) IN SUIStore(m, a.st, conn, a.input, a.ok)

\* setAttributes: the Attribute parameters decoded to key/value pairs, in list order.
RECURSIVE AttributePairs(_, _, _)
AttributePairs(s, mpl, i) ==
    IF i > Len(mpl) THEN <<>>
    ELSE IF mpl[i].name = "Attribute"
         THEN <<[K |-> mpl[i].key, V |-> ResolveText(s, mpl[i])]>>
              \o AttributePairs(s, mpl, i + 1)
         ELSE AttributePairs(s, mpl, i + 1)

AttributesDecodable(mpl) ==
    \A i \in 1..Len(mpl) : mpl[i].name = "Attribute" => mpl[i].value.t = "string"

\* A loop over the pairs from the last to the first.
RECURSIVE WriteAttributesBackwards(_, _, _)
WriteAttributesBackwards(s, pairs, i) ==
    IF i > Len(pairs) THEN s
    ELSE SetContactData(WriteAttributesBackwards(s, pairs, i + 1), pairs[i].K, pairs[i].V)

RECURSIVE WriteAttributes(_, _, _)
WriteAttributes(s, pairs, i) ==
    IF i > Len(pairs) THEN s
    ELSE WriteAttributes(SetContactData(s, pairs[i].K, pairs[i].V), pairs, i + 1)

\* setAttributes.Run
RunSetAttributes(m, s, conn) ==
    IF m.type # ModuleSetAttributes
    THEN Result(NoModule, WrongTypeErr(m.type, "setAttributes"), s)
    ELSE IF ~AttributesDecodable(m.parameters)
    THEN Result(NoModule, MissingParamErr("Attribute"), s)
    ELSE Result(GetLink(m.branches, BranchSuccess), NoErr,
                WriteAttributes(s, AttributePairs(s, m.parameters, 1), 1))

\* The hours-of-operation hooks of the model: the default of New() (always in
\* hours), a hook that is never in hours and a hook that fails.
InHoursHooks == {"always", "never", "error"}

\* A connector state in which no hook was installed (testCallState{}.init()).
NoHook == "unset"

HoursErr == <<"hours of operation not found">>

\* An IsInHours that drops the error of the hook.
IsInHoursSwallowsError(hook) == [inHours |-> hook = "always", err |-> NoErr]

\* IsInHours: the answer of the installed hook.
IsInHours(hook) ==
    CASE hook = "always" -> [inHours |-> TRUE, err |-> NoErr]
      [] hook = "never" -> [inHours |-> FALSE, err |-> NoErr]
      [] OTHER -> [inHours |-> FALSE, err |-> HoursErr]

\* checkHoursOfOperation.Run.  Run against a connector without a hook, as in the
\* module's test, the block follows True.
RunCheckHoursOfOperation(m, s, conn) ==
    IF m.type # ModuleCheckHoursOfOperation
    THEN Result(NoModule, WrongTypeErr(m.type, "checkHoursOfOperation"), s)
    ELSE IF conn.isInHours = NoHook THEN Result(GetLink(m.branches, BranchTrue), NoErr, s)
    ELSE LET r == IsInHours(conn.isInHours) IN
         IF r.err # NoErr THEN Result(GetLink(m.branches, BranchError), NoErr, s)
         ELSE IF r.inHours THEN Result(GetLink(m.branches, BranchTrue), NoErr, s)
         ELSE Result(GetLink(m.branches, BranchFalse), NoErr, s)

\* passthrough.Run: whatever the block is, follow its Success branch.
RunPassthrough(m, s, conn) == Result(GetLink(m.branches, BranchSuccess), NoErr, s)

\* The runners whose behaviour on a block of their own type is not modelled:
\* of these only the check of the type tag is.
TypeCheckOnly == {"checkAttribute", "playPrompt", "getUserInput", "invokeExternalResource", "setVoice"}

RunTypeCheck(runner, m, s, conn) ==
    Result(NoModule, WrongTypeErr(m.type, runner), s)

\* Runner.Run of the runner named `runner`
Run(runner, m, s, conn) ==
    CASE runner = "disconnect" -> RunDisconnect(m, s, conn)
      [] runner = "setQueue" -> RunSetQueue(m, s, conn)
      [] runner = "transfer" -> RunTransfer(m, s, conn)
      [] runner = "storeUserInput" -> RunStoreUserInput(m, s, conn)
      [] runner = "setAttributes" -> RunSetAttributes(m, s, conn)
      [] runner = "checkHoursOfOperation" -> RunCheckHoursOfOperation(m, s, conn)
      [] runner = "passthrough" -> RunPassthrough(m, s, conn)
      [] OTHER -> RunTypeCheck(runner, m, s, conn)

\* Whether Run models what the runner does with the module.
Modelled(runner, m) == runner \notin TypeCheckOnly \/ m.type # RunnerType(runner)

\* MakeRunner: the runner of a block, by its type tag.
MakeRunner(m) ==
    CASE m.type = ModuleStoreUserInput -> "storeUserInput"
      [] m.type = ModuleCheckAttribute -> "checkAttribute"
      [] m.type = ModuleTransfer -> "transfer"
      [] m.type = ModulePlayPrompt -> "playPrompt"
      [] m.type = ModuleDisconnect -> "disconnect"
      [] m.type = ModuleSetQueue -> "setQueue"
      [] m.type = ModuleGetUserInput -> "getUserInput"
      [] m.type = ModuleSetAttributes -> "setAttributes"
      [] m.type = ModuleInvokeExternalResource -> "invokeExternalResource"
      [] m.type = ModuleCheckHoursOfOperation -> "checkHoursOfOperation"
      [] m.type = ModuleSetVoice -> "setVoice"
      [] OTHER -> "passthrough"

\* flow.Dedeprecate on one module: a deprecated tag with a modern replacement
\* becomes a block of the replacement's shape.
DedeprecateModule(m) ==
    CASE m.type = ModuleDeprecatedStoreCustomerInput -> [m EXCEPT !.type = ModuleStoreUserInput]
      [] m.type = ModuleDeprecatedPlayAudio -> [m EXCEPT !.type = ModulePlayPrompt]
      [] m.type = ModuleDeprecatedTransferToFlow ->
             [m EXCEPT !.type = ModuleTransfer, !.target = TargetFlow]
      [] OTHER -> m

\* flow.Dedeprecate
Dedeprecate(f) == [f EXCEPT !.modules = [i \in 1..Len(f.modules) |-> DedeprecateModule(f.modules[i])]]

-----------------------------------------------------------------------------
(* The flows handed to the simulator *)

Flow(name, start, mods) == [name |-> name, start |-> start, modules |-> mods]

QueueParam(arn, name) == Param("Queue", StrV(T(arn)), NoNamespace, T(name))
FlowParam(arn, name) == Param("ContactFlowId", StrV(T(arn)), NoNamespace, T(name))
Plain(name, value) == Param(name, value, NoNamespace, EmptyText)

\* The parameters of the StoreUserInput blocks of the module's tests.
SUIPlain ==
    << Param("Text", StrV(T("prompt")), NamespaceExternal, EmptyText),
       Plain("TextToSpeechType", StrV(T("ssml"))),
       Plain("CustomerInputType", StrV(T("Custom"))),
       Plain("Timeout", StrV(T("7"))),
       Plain("MaxDigits", NumV(8)),
       Plain("EncryptEntry", BoolV(FALSE)),
       Plain("DisableCancel", BoolV(TRUE)) >>

SUIEncrypted ==
    << Plain("Text", StrV(T("hello"))),
       Plain("TextToSpeechType", StrV(T("ssml"))),
       Plain("CustomerInputType", StrV(T("Custom"))),
       Plain("Timeout", StrV(T("7"))),
       Plain("MaxDigits", NumV(8)),
       Plain("EncryptEntry", BoolV(TRUE)),
       Plain("DisableCancel", BoolV(TRUE)),
       Plain("EncryptionKeyId", StrV(T("fa0ef83f"))),
       Plain("EncryptionKey", StrV(T("-----BEGIN CERTIFICATE-----"))) >>

SUICustomTerminator ==
    << Plain("Text", StrV(<<"enter ", "$.External.digits", " or ", "$.External.missing">>)),
       Plain("TextToSpeechType", StrV(T("text"))),
       Plain("CustomerInputType", StrV(T("Custom"))),
       Plain("Timeout", StrV(T("5"))),
       Plain("MaxDigits", NumV(4)),
       Plain("EncryptEntry", BoolV(FALSE)),
       Plain("DisableCancel", BoolV(FALSE)),
       Plain("TerminatorDigits", StrV(T("0"))) >>

SUIBadTimeout ==
    << Param("Text", StrV(T("prompt")), NamespaceExternal, EmptyText),
       Plain("Timeout", StrV(T("fishcake"))),
       Plain("MaxDigits", NumV(8)),
       Plain("TextToSpeechType", StrV(T("text"))),
       Plain("EncryptEntry", BoolV(FALSE)) >>

MainFlow ==
    Flow(T("main"), "a1",
      << Module("a1", ModuleDeprecatedStoreCustomerInput, NoTarget,
                <<Branch(BranchSuccess, "a2"), Branch(BranchError, "a9")>>, SUIPlain),
         Module("a2", ModuleSetQueue, NoTarget,
                <<Branch(BranchSuccess, "a3")>>, <<QueueParam("arn:queue/sales", "Sales")>>),
         Module("a3", ModuleTransfer, TargetPhoneNumber,
                <<Branch(BranchError, "a9"), Branch(BranchSuccess, "a4"), Branch(BranchSuccess, "a9")>>,
                <<Plain("BlindTransfer", BoolV(FALSE)), Plain("PhoneNumber", StrV(T("+441234")))>>),
         Module("a4", ModuleTransfer, TargetQueue, <<Branch(BranchError, "a9")>>, <<>>),
         Module("a8", ModuleDeprecatedPlayAudio, NoTarget, <<Branch(BranchSuccess, "a9")>>, <<>>),
         Module("a9", ModuleDisconnect, NoTarget, <<>>, <<>>) >>)

NightFlow ==
    Flow(T("night"), "b1",
      << Module("b1", ModuleTransfer, TargetQueue, <<Branch(BranchError, "b2")>>, <<>>),
         Module("b2", ModuleStoreUserInput, NoTarget,
                <<Branch(BranchSuccess, "b3")>>, SUIEncrypted),
         Module("b3", ModuleDeprecatedTransferToFlow, NoTarget,
                <<Branch(BranchError, "b4")>>, <<FlowParam("arn:flow/main", "main")>>),
         Module("b4", UnknownType, NoTarget, <<Branch(BranchSuccess, "b5")>>, <<>>),
         Module("b5", ModuleSetQueue, NoTarget,
                <<Branch(BranchSuccess, "b6")>>, <<QueueParam("arn:queue/support", "Support")>>),
         Module("b6", ModuleCheckHoursOfOperation, NoTarget,
                <<Branch(BranchTrue, "b7"), Branch(BranchFalse, "b8"), Branch(BranchError, "b8")>>,
                <<>>),
         Module("b7", ModuleTransfer, TargetPhoneNumber, <<Branch(BranchSuccess, "b8")>>,
                <<Plain("BlindTransfer", BoolV(TRUE)), Plain("PhoneNumber", StrV(T("+449876")))>>),
         Module("b8", ModuleDeprecatedSetScreenPop, NoTarget, <<>>, <<>>),
         Module("b10", ModuleCheckAttribute, NoTarget, <<Branch(BranchNoMatch, "b8")>>, <<>>),
         Module("b11", ModulePlayPrompt, NoTarget, <<Branch(BranchSuccess, "b8")>>, <<>>),
         Module("b12", ModuleGetUserInput, NoTarget, <<Branch(BranchTimeout, "b8")>>, <<>>),
         Module("b13", ModuleInvokeExternalResource, TargetLambda, <<Branch(BranchSuccess, "b8")>>, <<>>),
         Module("b14", ModuleSetVoice, NoTarget, <<Branch(BranchSuccess, "b8")>>, <<>>),
         Module("b15", ModuleDeprecatedCustomerInQueue, NoTarget, <<Branch(BranchAtCapacity, "b8")>>, <<>>) >>)

QueueFlow ==
    Flow(T("queues"), "c1",
      << Module("c1", ModuleSetQueue, NoTarget,
                <<Branch(BranchSuccess, "c2")>>, <<QueueParam("arn:queue/sales", "Sales")>>),
         Module("c2", ModuleSetAttributes, NoTarget, <<Branch(BranchSuccess, "c3")>>,
                <<KeyParam("Attribute", "vip", StrV(T("yes")), NoNamespace)>>),
         Module("c3", ModuleSetQueue, NoTarget,
                <<Branch(BranchSuccess, "c4")>>, <<QueueParam("arn:queue/support", "Support")>>),
         Module("c4", ModuleStoreUserInput, NoTarget,
                <<Branch(BranchSuccess, "c5")>>, SUICustomTerminator),
         Module("c5", ModuleTransfer, TargetQueue, <<Branch(BranchError, "c1")>>, <<>>) >>)

BrokenFlow ==
    Flow(T("broken"), "e1",
      << Module("e1", ModuleCheckHoursOfOperation, NoTarget,
                <<Branch(BranchTrue, "e2"), Branch(BranchFalse, "e3"), Branch(BranchError, "e4")>>,
                <<>>),
         Module("e2", ModuleTransfer, TargetFlow, <<Branch(BranchError, "e5")>>,
                <<FlowParam("arn:flow/broken", "broken")>>),
         Module("e3", ModuleSetQueue, NoTarget, <<Branch(BranchSuccess, "e1")>>,
                <<Plain("Queue", NumV(7))>>),
         Module("e4", ModuleTransfer, TargetFlow, <<Branch(BranchError, "e5")>>,
                <<FlowParam("arn:flow/absent", "absent")>>),
         Module("e5", ModuleStoreUserInput, NoTarget, <<Branch(BranchSuccess, "e1")>>,
                SUIBadTimeout) >>)

FlowInputs == {MainFlow, NightFlow, QueueFlow, BrokenFlow}

\* The numbers a call can be placed to ("" is the unset DestNumber).
Tels == {"", "+44100"}

\* The inputs the driver can deliver.
Inputs == {T("12345678"), T("42")}

-----------------------------------------------------------------------------
(* The simulator *)

\* A LoadFlow that stores the flow as it was handed in.
LoadFlowRaw(f) ==
    /\ callState = "NoCall"
    /\ flows' = MapSet(flows, f.name, f)
    /\ modules' = [id \in DOMAIN modules \cup {f.modules[i].id : i \in 1..Len(f.modules)} |->
                     IF \E i \in 1..Len(f.modules) : f.modules[i].id = id
                     THEN f.modules[CHOOSE i \in 1..Len(f.modules) :
                                       /\ f.modules[i].id = id
                                       /\ \A j \in (i + 1)..Len(f.modules) : f.modules[j].id # id]
                     ELSE modules[id]]
    /\ UNCHANGED <<telFlow, encrypt, isInHours, callVars, st, testVars, glVars, api, restVars>>

\* Simulator.LoadFlow: the flow is normalised, stored under its name, and each of
\* its modules is stored under its ID (a later module of the same ID wins).
LoadFlow(f) ==
    LET g == Dedeprecate(f) IN
    /\ callState = "NoCall"
    /\ flows' = MapSet(flows, g.name, g)
    /\ modules' = [id \in DOMAIN modules \cup {g.modules[i].id : i \in 1..Len(g.modules)} |->
                     IF \E i \in 1..Len(g.modules) : g.modules[i].id = id
                     THEN g.modules[CHOOSE i \in 1..Len(g.modules) :
                                       /\ g.modules[i].id = id
                                       /\ \A j \in (i + 1)..Len(g.modules) : g.modules[j].id # id]
                     ELSE modules[id]]
    /\ UNCHANGED <<telFlow, encrypt, isInHours, callVars, st, testVars, glVars, api, restVars>>

StartingFlowNotFoundErr ==
    <<"starting flow not found. Load the flow with LoadFlow before calling this method">>
NoDestNumberErr == <<"a destination number must be provided in order to start a flow">>
NoStartingFlowErr == <<"no starting flow set. Call SetStartingFlowFor before starting a call">>

ApiCall(op, tel, flowName, err) == [op |-> op, tel |-> tel, flow |-> flowName, err |-> err]
NoApiCall == ApiCall("", "", EmptyText, NoErr)

\* Simulator.SetStartingFlowFor: an error, and no change, when the flow is not loaded.
SetStartingFlowFor(tel, flowName) ==
    /\ callState = "NoCall"
    /\ IF flowName \notin DOMAIN flows
       THEN /\ api' = ApiCall("SetStartingFlowFor", tel, flowName, StartingFlowNotFoundErr)
            /\ telFlow' = telFlow
       ELSE /\ api' = ApiCall("SetStartingFlowFor", tel, flowName, NoErr)
            /\ telFlow' = MapSet(telFlow, tel, flows[flowName])
    /\ UNCHANGED <<flows, modules, encrypt, isInHours, callVars, st, testVars, glVars, restVars>>

\* Simulator.SetEncryption
SetEncryption(hook) ==
    /\ callState = "NoCall"
    /\ encrypt' = hook
    /\ UNCHANGED <<flows, modules, telFlow, isInHours, callVars, st, testVars, glVars, api, restVars>>

\* Simulator.SetInHoursCheck
SetInHoursCheck(hook) ==
    /\ callState = "NoCall"
    /\ isInHours' = hook
    /\ UNCHANGED <<flows, modules, telFlow, encrypt, callVars, st, testVars, glVars, api, restVars>>

\* A GetModule that hands out one and the same module, whatever the ID asked for.
GetModuleAny(mods, moduleID) ==
    IF moduleID \in DOMAIN mods
    THEN [found |-> TRUE, m |-> mods[CHOOSE id \in DOMAIN mods : TRUE]]
    ELSE [found |-> FALSE, m |-> Module("", "", NoTarget, <<>>, <<>>)]

\* simulatorConnector.GetModule: the block with the given ID, or nil.
GetModule(mods, moduleID) ==
    IF moduleID \in DOMAIN mods THEN [found |-> TRUE, m |-> mods[moduleID]]
    ELSE [found |-> FALSE, m |-> Module("", "", NoTarget, <<>>, <<>>)]

\* A StartCall that takes the flow of some number when its own has none.
StartCallAnyNumber(destNumber) ==
    LET tel == IF destNumber \in DOMAIN telFlow THEN destNumber
               ELSE CHOOSE t \in DOMAIN telFlow \cup {destNumber} : t \in DOMAIN telFlow \/ DOMAIN telFlow = {}
    IN
    /\ callState = "NoCall"
    /\ IF tel \notin DOMAIN telFlow
       THEN /\ api' = ApiCall("StartCall", destNumber, EmptyText, NoStartingFlowErr)
            /\ UNCHANGED <<callState, cur, st>>
       ELSE /\ api' = ApiCall("StartCall", destNumber, EmptyText, NoErr)
            /\ callState' = "Ready"
            /\ cur' = telFlow[tel].start
            /\ st' = NewState(EmptyText, EmptyStore, EmptyStore, EmptyStore)
    /\ UNCHANGED <<simVars, callErr, runLog, received, testVars, glVars, restVars>>

\* Simulator.StartCall: an error and no call when the number is empty or has no
\* starting flow; otherwise a call is created at the start block of that flow.
StartCall(destNumber) ==
    /\ callState = "NoCall"
    /\ IF destNumber = ""
       THEN /\ api' = ApiCall("StartCall", destNumber, EmptyText, NoDestNumberErr)
            /\ UNCHANGED <<callState, cur, st>>
       ELSE IF destNumber \notin DOMAIN telFlow
       THEN /\ api' = ApiCall("StartCall", destNumber, EmptyText, NoStartingFlowErr)
            /\ UNCHANGED <<callState, cur, st>>
       ELSE /\ api' = ApiCall("StartCall", destNumber, EmptyText, NoErr)
            /\ callState' = "Ready"
            /\ cur' = telFlow[destNumber].start
            /\ st' = NewState(EmptyText, EmptyStore, EmptyStore, EmptyStore)
    /\ UNCHANGED <<simVars, callErr, runLog, received, testVars, glVars, restVars>>

-----------------------------------------------------------------------------
(* The call execution engine *)

EngineConn(rx) == Conn(flows, encrypt, isInHours, FALSE, rx)

\* The block the driving loop is at, and its runner.
CurModule == GetModule(modules, cur).m
CurRunner == MakeRunner(CurModule)

\* Whether the block at hand is a storeUserInput that gets as far as its receive.
Receives(m, s) ==
    /\ MakeRunner(m) = "storeUserInput"
    /\ SUIParams(m, s).err = NoErr

\* The driving loop takes the result r of running block m: it follows the
\* successor, or ends the call on no successor or on an error.
Finish(m, r) ==
    /\ st' = r.st
    /\ runLog' = Append(runLog, [m |-> m, runner |-> MakeRunner(m), next |-> r.next,
                                 err |-> r.err, panicked |-> r.panicked,
                                 emitted |-> SubSeq(r.st.events, Len(st.events) + 1,
                                                    Len(r.st.events))])
    /\ callState' = IF r.panicked THEN "Crashed"
                    ELSE IF r.err # NoErr \/ r.next = NoModule THEN "Ended"
                    ELSE "Running"
    /\ cur' = IF r.panicked \/ r.err # NoErr THEN NoModule ELSE r.next
    /\ callErr' = IF r.panicked THEN NoErr ELSE r.err
    /\ received' = NoRx
    /\ UNCHANGED <<simVars, testVars, glVars, api, restVars>>

\* The call's thread of control starts stepping.
BeginCall ==
    /\ callState = "Ready"
    /\ callState' = "Running"
    /\ UNCHANGED <<simVars, cur, callErr, st, runLog, received, testVars, glVars, api, restVars>>

\* One block that does not wait for input is dispatched and run.
Step ==
    /\ callState = "Running"
    /\ Len(runLog) < MaxRuns
    /\ GetModule(modules, cur).found
    /\ Modelled(CurRunner, CurModule)
    /\ ~Receives(CurModule, st)
    /\ ~received.pending
    /\ Finish(CurModule, Run(CurRunner, CurModule, st, EngineConn(NoRx)))

\* A storeUserInput block sends its prompt and blocks in its receive.
AwaitInput ==
    /\ callState = "Running"
    /\ Len(runLog) < MaxRuns
    /\ GetModule(modules, cur).found
    /\ Receives(CurModule, st)
    /\ ~received.pending
    /\ st' = SUIAsk(CurModule, st, EngineConn(NoRx)).st
    /\ callState' = "WaitingForInput"
    /\ UNCHANGED <<simVars, cur, callErr, runLog, received, testVars, glVars, api, restVars>>

\* The driver delivers input to the blocked call: the receive returns it.
DeliverInput(input) ==
    /\ callState = "WaitingForInput"
    /\ callState' = "Running"
    /\ received' = [input |-> input, ok |-> TRUE, pending |-> TRUE]
    /\ UNCHANGED <<simVars, cur, callErr, st, runLog, testVars, glVars, api, restVars>>

\* A receive without a timer: only input ends the wait.
TimeoutNever == FALSE /\ UNCHANGED vars

\* The timeout of the receive elapses: the receive returns without input.
TimeoutElapses ==
    /\ callState = "WaitingForInput"
    /\ callState' = "Running"
    /\ received' = [input |-> EmptyText, ok |-> FALSE, pending |-> TRUE]
    /\ UNCHANGED <<simVars, cur, callErr, st, runLog, testVars, glVars, api, restVars>>

\* The call thread goes on after its receive: the block stores the input and
\* returns its successor.
Resume ==
    /\ callState = "Running"
    /\ received.pending
    /\ Finish(CurModule, SUIStore(CurModule, st, EngineConn(received), received.input, received.ok))

NoTest == Module("", "", NoTarget, <<>>, <<>>)
NoFlows == [k \in {} |-> Flow(EmptyText, NoModule, <<>>)]
NoModules == [k \in {} |-> NoTest]
FreshState == NewState(EmptyText, EmptyStore, EmptyStore, EmptyStore)

\* The simulator as New() returns it.
SimNew ==
    /\ flows = NoFlows
    /\ modules = NoModules
    /\ telFlow = NoFlows
    /\ encrypt = "identity"
    /\ isInHours = "always"

NoCallYet ==
    /\ callState = "NoCall"
    /\ cur = NoModule
    /\ callErr = NoErr
    /\ runLog = <<>>
    /\ received = NoRx
    /\ api = NoApiCall

NoModuleTest ==
    /\ tMod = NoTest /\ tRunner = "" /\ tPhase = "none"
    /\ tNext = NoModule /\ tErr = NoErr /\ tPre = FreshState

NoGetLinkTest ==
    glList = <<>> /\ glLabel = "" /\ glPhase = "none" /\ glResult = NoModule

NoMatcherTest == evLog = <<>> /\ cursor = 0 /\ checks = <<>>

NoSubstTest ==
    /\ sText = EmptyText /\ sPhase = "none" /\ sOut = EmptyText /\ sAgain = EmptyText
    /\ sNs = NoNamespace

NoCalls == calls = <<>>

NoLambdas == lambdas = EmptyStore /\ invoked = <<>>

NoOtherTest == NoMatcherTest /\ NoSubstTest /\ NoCalls /\ NoLambdas

Init ==
    /\ SimNew
    /\ NoCallYet
    /\ st = FreshState
    /\ NoModuleTest
    /\ NoGetLinkTest
    /\ NoOtherTest

Next ==
    \/ \E f \in FlowInputs : LoadFlow(f)
    \/ \E tel \in Tels, f \in FlowInputs : SetStartingFlowFor(tel, f.name)
    \/ \E hook \in EncryptionHooks : SetEncryption(hook)
    \/ \E hook \in InHoursHooks : SetInHoursCheck(hook)
    \/ \E tel \in Tels : StartCall(tel)
    \/ BeginCall
    \/ Step
    \/ AwaitInput
    \/ \E input \in Inputs : DeliverInput(input)
    \/ TimeoutElapses
    \/ Resume

Spec == Init /\ [][Next]_vars

\* The timer of a receive runs on its own: once the call waits for input, the
\* timeout elapses unless input arrives first.
SpecLive == Init /\ [][Next]_vars /\ WF_vars(TimeoutElapses)

-----------------------------------------------------------------------------
(* The driving loop *)

LastRun == runLog[Len(runLog)]

\* The successor a run hands to the driving loop: none when it failed.
Handed(e) == IF e.err # NoErr \/ e.panicked THEN NoModule ELSE e.next

C1Dispatch ==
    /\ \A k \in 1..Len(runLog) :
          /\ k = 1 => \E tel \in DOMAIN telFlow \ {""} : runLog[k].m.id = telFlow[tel].start
          /\ k > 1 => /\ Handed(runLog[k - 1]) # NoModule
                      /\ runLog[k].m.id = runLog[k - 1].next
    /\ callState \in {"Running", "WaitingForInput"} /\ runLog # <<>> => cur = LastRun.next
    /\ callState = "Ended" <=> runLog # <<>> /\ ~LastRun.panicked /\ Handed(LastRun) = NoModule
    /\ callState = "Ended" => callErr = LastRun.err
    /\ callErr # NoErr => callState = "Ended"

C1Terminal ==
    callState = "Ended" => UNCHANGED <<callState, cur, callErr, st, runLog>>

\* C1: the driving loop dispatches the start block and then, one after another, the
\* block each run returned as successor; the call is Ended exactly when the last
\* run returned no successor or an error, that error is the one surfaced, and
\* once a call is Ended nothing is dispatched, written or emitted any more.
C1_DrivingLoop == [](C1Dispatch) /\ [][C1Terminal]_vars

\* A call that ran three blocks and ended on the error of the third.
C1_Witness == callState = "Ended" /\ callErr # NoErr /\ Len(runLog) >= 3

-----------------------------------------------------------------------------
(* GetLink on its own: every branch list of up to MaxBranches branches *)

GLConditions == {BranchSuccess, BranchError, BranchTrue}
GLTransitions == {"n1", "n2"}
GLBranches == {Branch(c, to) : c \in GLConditions, to \in GLTransitions}
GLLists == UNION {[1..n -> GLBranches] : n \in 0..MaxBranches}

InitGetLink ==
    /\ SimNew
    /\ NoCallYet
    /\ st = FreshState
    /\ NoModuleTest
    /\ glList \in GLLists
    /\ glLabel \in GLConditions \cup {BranchTimeout}
    /\ glPhase = "ready"
    /\ glResult = NoModule
    /\ NoOtherTest

CallGetLink ==
    /\ glPhase = "ready"
    /\ glResult' = GetLink(glList, glLabel)
    /\ glPhase' = "done"
    /\ UNCHANGED <<simVars, callVars, st, testVars, glList, glLabel, api, restVars>>

NextGetLink == CallGetLink

SpecGetLink == InitGetLink /\ [][NextGetLink]_vars

\* The positions of the branches of glList whose condition is glLabel.
GLMatches == {i \in 1..Len(glList) : glList[i].condition = glLabel}

\* C9: GetLink returns the transition of the first branch, in declaration order,
\* whose condition equals the label, and no successor when no branch has the label.
C9_GetLinkFirstMatch ==
    glPhase = "done" =>
        /\ GLMatches = {} => glResult = NoModule
        /\ GLMatches # {} =>
              \E i \in GLMatches : /\ \A j \in GLMatches : i <= j
                                   /\ glResult = glList[i].transition

\* A lookup among three branches of which the second and the third have the label,
\* with different transitions.
C9_Witness ==
    /\ glPhase = "done"
    /\ Len(glList) = 3
    /\ GLMatches = {2, 3}
    /\ glList[2].transition # glList[3].transition
    /\ glResult = glList[2].transition

-----------------------------------------------------------------------------
(* The runners on their own, as the tests of the module package run them:  *)
(* a module is unmarshalled as a runner and run against a connector state. *)

BLNone == <<>>
BLBoth == <<Branch(BranchSuccess, "n1"), Branch(BranchError, "n2")>>
BLTwice == <<Branch(BranchError, "n2"), Branch(BranchSuccess, "n1"), Branch(BranchSuccess, "n3"),
             Branch(BranchError, "n4")>>
BLHours == <<Branch(BranchTrue, "n1"), Branch(BranchFalse, "n2"), Branch(BranchError, "n3")>>

TransferParamLists ==
    { <<>>,
      <<FlowParam("arn:flow/main", "main")>>,
      <<FlowParam("arn:flow/absent", "absent")>>,
      <<Param("ContactFlowId", NumV(7), NoNamespace, T("main"))>>,
      <<Plain("BlindTransfer", BoolV(TRUE)), Plain("PhoneNumber", StrV(T("+441234")))>>,
      <<Plain("BlindTransfer", BoolV(FALSE)), Plain("PhoneNumber", StrV(T("+449876")))>>,
      <<Plain("BlindTransfer", StrV(T("true"))), Plain("PhoneNumber", StrV(T("+441234")))>>,
      <<Plain("BlindTransfer", BoolV(TRUE))>>,
      <<Plain("BlindTransfer", BoolV(FALSE)), Plain("PhoneNumber", NumV(7))>> }

TransferModules ==
    { Module("t", ModuleTransfer, target, bl, pl) :
        target \in {TargetFlow, TargetQueue, TargetPhoneNumber, TargetLambda},
        bl \in {BLNone, BLBoth, BLTwice},
        pl \in TransferParamLists }

StoreUserInputModules ==
    { Module("s", ModuleStoreUserInput, NoTarget, bl, pl) :
        bl \in {BLNone, BLBoth, BLTwice},
        pl \in {<<>>, SUIPlain, SUIEncrypted, SUICustomTerminator, SUIBadTimeout} }

SetQueueModules ==
    { Module("q", ModuleSetQueue, NoTarget, bl, pl) :
        bl \in {BLNone, BLBoth, BLTwice},
        pl \in { <<>>, <<QueueParam("arn:queue/sales", "Sales")>>,
                 <<QueueParam("arn:queue/support", "Support"), QueueParam("arn:queue/sales", "Sales")>>,
                 <<Plain("Queue", NumV(7))>> } }

SetAttributesModules ==
    { Module("x", ModuleSetAttributes, NoTarget, bl, pl) :
        bl \in {BLNone, BLBoth},
        pl \in { <<>>,
                 <<KeyParam("Attribute", "a", StrV(T("1")), NoNamespace),
                   KeyParam("Attribute", "b", StrV(T("digits")), NamespaceExternal),
                   KeyParam("Attribute", "a", StrV(T("2")), NoNamespace)>>,
                 <<KeyParam("Attribute", "a", StrV(T("1")), NoNamespace),
                   KeyParam("Attribute", "b", NumV(7), NoNamespace)>> } }

BLHoursTwice == <<Branch(BranchFalse, "n2"), Branch(BranchError, "n3"), Branch(BranchTrue, "n1"),
                  Branch(BranchSuccess, "n4"), Branch(BranchError, "n4"), Branch(BranchFalse, "n4")>>

HoursModules ==
    { Module("h", ModuleCheckHoursOfOperation, NoTarget, bl, <<>>) :
        bl \in {BLNone, BLHours, BLHoursTwice, BLBoth} }

\* One block of every type tag: what each runner is also run on.
AnyTypeModules == { Module("w", type, NoTarget, BLBoth, <<>>) : type \in AllTypes }

TestCases ==
    (TransferModules \X {"transfer"})
    \cup (StoreUserInputModules \X {"storeUserInput"})
    \cup (SetQueueModules \X {"setQueue"})
    \cup (SetAttributesModules \X {"setAttributes"})
    \cup (HoursModules \X {"checkHoursOfOperation"})
    \cup ((AnyTypeModules \cup {Module("t", ModuleTransfer, TargetPhoneNumber, BLBoth,
                                  <<Plain("BlindTransfer", BoolV(TRUE)),
                                    Plain("PhoneNumber", StrV(T("+441234")))>>),
                                Module("s", ModuleStoreUserInput, NoTarget, BLBoth, SUIPlain)})
          \X Runners)

TestExternal ==
    [k \in {"prompt", "digits"} |->
        IF k = "prompt" THEN <<"<speak>Please enter digits ", "$.External.digits", "</speak>">>
        ELSE T("1 and 3")]

TestSystems ==
    { EmptyStore,
      [k \in {SystemQueueName, SystemQueueARN} |->
          IF k = SystemQueueName THEN T("Sales") ELSE T("arn:queue/sales")],
      [k \in {SystemQueueName} |-> T("Sales")],
      [k \in {SystemQueueARN} |-> T("arn:queue/sales")],
      [k \in {SystemLastUserInput} |-> T("999")] }

TestInputs == {EmptyText, T("Timeout"), T("12345678")}

TestStates ==
    { NewState(i, TestExternal, EmptyStore, sys) : i \in TestInputs, sys \in TestSystems }

\* States of a call that has attributes already: what setAttributes is also run on.
TestContactData == [k \in {"a", "z"} |-> IF k = "a" THEN T("0") ELSE T("9")]

AttributeStates ==
    { NewState(EmptyText, TestExternal, TestContactData, sys) : sys \in TestSystems }

\* The flows loaded when a runner is tested: none, or the flow named "main".
LoadedMain == [k \in {MainFlow.name} |-> Dedeprecate(MainFlow)]

TestConn == Conn(flows, encrypt, isInHours, TRUE, NoRx)

InitTest ==
    /\ \E c \in TestCases : tMod = c[1] /\ tRunner = c[2]
    /\ flows \in IF tRunner = "transfer" /\ tMod.target = TargetFlow
                 THEN {NoFlows, LoadedMain} ELSE {NoFlows}
    /\ modules = NoModules
    /\ telFlow = NoFlows
    /\ encrypt \in IF tRunner = "storeUserInput" THEN EncryptionHooks ELSE {"identity"}
    /\ isInHours \in IF tRunner = "checkHoursOfOperation"
                     THEN InHoursHooks \cup {NoHook} ELSE {"always"}
    /\ NoCallYet
    /\ st \in TestStates \cup (IF tRunner = "setAttributes" THEN AttributeStates ELSE {})
    /\ tPhase = "ready"
    /\ tNext = NoModule
    /\ tErr = NoErr
    /\ tPre = st
    /\ NoGetLinkTest
    /\ NoOtherTest

\* mod.Run(state) of a test case
TestRun ==
    /\ tPhase = "ready"
    /\ Modelled(tRunner, tMod)
    /\ LET r == Run(tRunner, tMod, st, TestConn) IN
          /\ st' = r.st
          /\ tNext' = r.next
          /\ tErr' = r.err
    /\ tPhase' = "done"
    /\ UNCHANGED <<simVars, callVars, tMod, tRunner, tPre, glVars, api, restVars>>

NextTest == TestRun

SpecTest == InitTest /\ [][NextTest]_vars

-----------------------------------------------------------------------------
(* Properties of the runners *)

\* The transition of the first branch of the list with the label, by position.
FirstBranch(bl, label) ==
    LET at == {i \in 1..Len(bl) : bl[i].condition = label} IN
    IF at = {} THEN NoModule
    ELSE bl[CHOOSE i \in at : \A j \in at : i <= j].transition

\* The index of the last run before run k in which a setQueue stored a queue, or 0.
LastSetQueue(k) ==
    LET at == {j \in 1..(k - 1) : /\ runLog[j].runner = "setQueue"
                                   /\ runLog[j].err = NoErr
                                   /\ ~runLog[j].panicked} IN
    IF at = {} THEN 0 ELSE CHOOSE j \in at : \A i \in at : i <= j

IsQueueTransfer(e) == e.runner = "transfer" /\ e.m.target = TargetQueue

\* C2: a Queue transfer emits a queue-transfer event exactly when an earlier
\* SetQueue of the call stored the queue: with none it follows the Error branch
\* and emits nothing; otherwise it emits one queue-transfer event with the ARN and
\* the name of the most recent SetQueue and returns no successor.
C2_QueueTransfer ==
    /\ \A k \in 1..Len(runLog) :
          IsQueueTransfer(runLog[k]) =>
              LET j == LastSetQueue(k)
                  q == ParamGet(runLog[j].m.parameters, "Queue").p
              IN  /\ runLog[k].err = NoErr
                  /\ j = 0 => /\ runLog[k].emitted = <<>>
                              /\ runLog[k].next = FirstBranch(runLog[k].m.branches, BranchError)
                  /\ j # 0 => /\ runLog[k].emitted = <<QueueTransferEvent(q.value.s, q.resourceName)>>
                              /\ runLog[k].next = NoModule
    /\ callState # "NoCall" =>
          /\ SystemQueueName \in DOMAIN st.system <=> LastSetQueue(Len(runLog) + 1) # 0
          /\ SystemQueueARN \in DOMAIN st.system <=> LastSetQueue(Len(runLog) + 1) # 0

\* A call in which two SetQueue blocks ran and a Queue transfer then emitted the
\* queue of the second.
C2_Witness ==
    /\ callState = "Ended"
    /\ IsQueueTransfer(LastRun)
    /\ \E i, j \in 1..Len(runLog) :
          /\ i < j
          /\ runLog[i].runner = "setQueue" /\ runLog[j].runner = "setQueue"
          /\ runLog[i].m.parameters # runLog[j].m.parameters
    /\ st.events = <<QueueTransferEvent(T("arn:queue/support"), T("Support"))>>


TestDone(runner) == tPhase = "done" /\ tRunner = runner /\ tMod.type = RunnerType(runner)

\* The parameter of the module under test with the given name.
TP(name) == ParamGet(tMod.parameters, name)

IsPhoneTransfer ==
    /\ TestDone("transfer") /\ tMod.target = TargetPhoneNumber
    /\ TP("BlindTransfer").ok /\ TP("BlindTransfer").p.value.t = "bool"
    /\ TP("PhoneNumber").ok /\ TP("PhoneNumber").p.value.t = "string"

\* C3: a PhoneNumber transfer with a boolean BlindTransfer and a textual PhoneNumber
\* emits exactly one number-transfer event carrying that number; it returns no
\* successor when blind and the Success successor of the block when not.
C3_PhoneNumberTransfer ==
    IsPhoneTransfer =>
        /\ tErr = NoErr
        /\ st.events = Append(tPre.events, NumberTransferEvent(TP("PhoneNumber").p.value.s))
        /\ TP("BlindTransfer").p.value.b => tNext = NoModule
        /\ ~TP("BlindTransfer").p.value.b => tNext = FirstBranch(tMod.branches, BranchSuccess)

\* A blind transfer of a block that has a Success branch.
C3_Witness ==
    /\ IsPhoneTransfer
    /\ TP("BlindTransfer").p.value.b
    /\ FirstBranch(tMod.branches, BranchSuccess) # NoModule
    /\ Len(st.events) = 1

IsFlowTransfer ==
    /\ TestDone("transfer") /\ tMod.target = TargetFlow
    /\ TP("ContactFlowId").ok

\* The loaded flows that have the name of the ContactFlowId parameter.
NamedFlows == {name \in DOMAIN flows : name = TP("ContactFlowId").p.resourceName}

\* C4: a Flow transfer looks the flow named by ContactFlowId up: when no flow of
\* that name is loaded it follows the Error branch and emits nothing; otherwise
\* (the parameter's value being a text) it emits exactly one flow-transfer event
\* with that name and returns the start block of that flow.
C4_FlowTransfer ==
    IsFlowTransfer =>
        /\ NamedFlows = {} =>
              /\ tErr = NoErr
              /\ tNext = FirstBranch(tMod.branches, BranchError)
              /\ st.events = tPre.events
        /\ NamedFlows # {} /\ TP("ContactFlowId").p.value.t = "string" =>
              /\ tErr = NoErr
              /\ \A name \in NamedFlows : tNext = flows[name].start
              /\ st.events = Append(tPre.events,
                                    FlowTransferEvent(TP("ContactFlowId").p.value.s,
                                                      TP("ContactFlowId").p.resourceName))

\* A transfer to a flow that is not loaded, while another flow is, from a block
\* with an Error branch.
C4_Witness ==
    /\ IsFlowTransfer
    /\ NamedFlows = {} /\ DOMAIN flows # {}
    /\ tNext = "n2"

SUIValid ==
    /\ TP("Text").ok /\ TP("Text").p.value.t = "string"
    /\ TP("Timeout").ok /\ TP("Timeout").p.value.t = "string" /\ Atoi(TP("Timeout").p.value.s).ok
    /\ TP("MaxDigits").ok /\ TP("MaxDigits").p.value.t = "number"
    /\ TP("EncryptEntry").ok /\ TP("EncryptEntry").p.value.t = "bool"

\* The test input stands for input that arrived before the timeout.
InputArrived == tPre.i # EmptyText /\ tPre.i # T("Timeout")

\* The system store after writing value under key into the store before the run.
SystemWith(key, value) ==
    /\ DOMAIN st.system = DOMAIN tPre.system \cup {key}
    /\ st.system[key] = value
    /\ \A k \in DOMAIN tPre.system : k # key => st.system[k] = tPre.system[k]

\* C5: a StoreUserInput without encryption that receives input before the timeout
\* stores exactly that input as last-input, follows Success and emits nothing; it
\* asks for MaxDigits characters within Timeout seconds, ended by '#' or by the
\* TerminatorDigits of the block.
C5_StoreUserInputPlain ==
    TestDone("storeUserInput") /\ SUIValid /\ ~TP("EncryptEntry").p.value.b /\ InputArrived =>
        /\ tErr = NoErr
        /\ SystemWith(SystemLastUserInput, tPre.i)
        /\ tNext = FirstBranch(tMod.branches, BranchSuccess)
        /\ st.events = tPre.events
        /\ st.nRecv = tPre.nRecv + 1
        /\ st.rcv.count = TP("MaxDigits").p.value.n
        /\ st.rcv.timeout = Atoi(TP("Timeout").p.value.s).n
        /\ st.rcv.terminator = IF TP("TerminatorDigits").ok
                               THEN TP("TerminatorDigits").p.value.s[1] ELSE "#"

\* The input overwrote an earlier last-input; the block has a custom terminator.
C5_Witness ==
    /\ TestDone("storeUserInput") /\ SUIValid /\ ~TP("EncryptEntry").p.value.b /\ InputArrived
    /\ TP("TerminatorDigits").ok
    /\ tPre.system = [k \in {SystemLastUserInput} |-> T("999")]
    /\ st.system[SystemLastUserInput] = T("12345678")
    /\ st.rcv = [count |-> 4, timeout |-> 5, terminator |-> "0"]

\* C6: a StoreUserInput with encryption that receives input calls the encryption
\* hook once, with the raw input, the EncryptionKeyId and the EncryptionKey of the
\* block, and stores the base64 encoding of what the hook returned as last-input;
\* the raw input is not what is stored.
C6_StoreUserInputEncrypted ==
    TestDone("storeUserInput") /\ SUIValid /\ TP("EncryptEntry").p.value.b /\ InputArrived =>
        /\ tErr = NoErr
        /\ st.encLog = Append(tPre.encLog, [in |-> tPre.i,
                                            keyID |-> TP("EncryptionKeyId").p.value.s,
                                            cert |-> TP("EncryptionKey").p.value.s])
        /\ SystemWith(SystemLastUserInput,
                      Base64(EncryptHook(encrypt, tPre.i, TP("EncryptionKeyId").p.value.s,
                                         TP("EncryptionKey").p.value.s)))
        /\ st.system[SystemLastUserInput] # tPre.i
        /\ tNext = FirstBranch(tMod.branches, BranchSuccess)

\* The test's hook was used: last-input is base64 of <encrypt>12345678</encrypt>.
C6_Witness ==
    /\ TestDone("storeUserInput") /\ SUIValid /\ TP("EncryptEntry").p.value.b /\ InputArrived
    /\ encrypt = "tagged"
    /\ st.system[SystemLastUserInput] =
           <<"base64(", "<encrypt>", "12345678", "</encrypt>", ")">>
    /\ Len(st.encLog) = 1

\* C7: a StoreUserInput whose receive reports that nothing arrived before the
\* timeout has still sent its prompt, follows Success, and leaves last-input, like
\* the rest of the system store, as it was before the block ran.
C7_StoreUserInputTimeout ==
    TestDone("storeUserInput") /\ SUIValid /\ ~InputArrived =>
        /\ tErr = NoErr
        /\ st.nSend = tPre.nSend + 1
        /\ st.o = ResolveText(tPre, TP("Text").p)
        /\ st.nRecv = tPre.nRecv + 1
        /\ tNext = FirstBranch(tMod.branches, BranchSuccess)
        /\ st.system = tPre.system
        /\ st.encLog = tPre.encLog

\* The test input "Timeout" with an earlier last-input in the store.
C7_Witness ==
    /\ TestDone("storeUserInput") /\ SUIValid
    /\ tPre.i = T("Timeout")
    /\ SystemLastUserInput \in DOMAIN tPre.system
    /\ st.system[SystemLastUserInput] = T("999")
    /\ st.o = <<"<speak>Please enter digits ", "1 and 3", "</speak>">>
    /\ tNext = "n1"

\* C10: a runner run on a block of another type than its own returns the error
\* 'module of type X being run as Y' and no successor, and has had no effect:
\* nothing sent, no receive requested, no store written, no event emitted.
C10_WrongType ==
    tPhase = "done" /\ RunnerType(tRunner) # "" /\ tMod.type # RunnerType(tRunner) =>
        /\ tErr = WrongTypeErr(tMod.type, tRunner)
        /\ tNext = NoModule
        /\ st = tPre

\* The transfer runner was run on a StoreUserInput block.
C10_Witness ==
    /\ tPhase = "done" /\ tRunner = "transfer" /\ tMod.type = ModuleStoreUserInput
    /\ tErr = WrongTypeErr(ModuleStoreUserInput, "transfer")


-----------------------------------------------------------------------------
(* Dispatch *)

\* The modern replacement of a deprecated type tag that has one.
ModernType(type) ==
    CASE type = ModuleDeprecatedStoreCustomerInput -> ModuleStoreUserInput
      [] type = ModuleDeprecatedPlayAudio -> ModulePlayPrompt
      [] type = ModuleDeprecatedTransferToFlow -> ModuleTransfer
      [] OTHER -> type

Replaced ==
    { ModuleDeprecatedStoreCustomerInput, ModuleDeprecatedPlayAudio,
      ModuleDeprecatedTransferToFlow }

\* The module with the given ID as it was handed to LoadFlow.
InputModule(id) ==
    LET f == CHOOSE g \in FlowInputs : \E i \in 1..Len(g.modules) : g.modules[i].id = id
    IN  f.modules[CHOOSE i \in 1..Len(f.modules) : f.modules[i].id = id]

\* The runner of the module is the runner of its type, or the passthrough runner.
OwnRunner(m, runner) ==
    /\ runner \in Runners
    /\ m.type \in KnownTypes => RunnerType(runner) = m.type
    /\ m.type \notin KnownTypes => runner = "passthrough"

Normalised(m) ==
    /\ m.type \notin Replaced
    /\ m.type = ModernType(InputModule(m.id).type)

\* C8: every loaded block has a runner: a block of a known type the runner of that
\* type, any other block the passthrough runner; and the blocks of a loaded flow
\* carry no deprecated tag that has a modern replacement but that replacement,
\* so that every block the driving loop dispatches was normalised before.
C8_DispatchTotal ==
    /\ \A id \in DOMAIN modules :
          /\ modules[id].id = id
          /\ Normalised(modules[id])
          /\ OwnRunner(modules[id], MakeRunner(modules[id]))
    /\ \A name \in DOMAIN flows : \A i \in 1..Len(flows[name].modules) :
          Normalised(flows[name].modules[i])
    /\ \A k \in 1..Len(runLog) :
          /\ Normalised(runLog[k].m)
          /\ OwnRunner(runLog[k].m, runLog[k].runner)

\* A call ran a block handed in as TransferToFlow with the transfer runner and then
\* a block handed in as StoreCustomerInput with the storeUserInput runner.
C8_Witness ==
    /\ Len(runLog) >= 4
    /\ InputModule(runLog[3].m.id).type = ModuleDeprecatedTransferToFlow
    /\ runLog[3].runner = "transfer"
    /\ InputModule(runLog[4].m.id).type = ModuleDeprecatedStoreCustomerInput
    /\ runLog[4].runner = "storeUserInput"
    /\ runLog[4].err = NoErr

-----------------------------------------------------------------------------
(* flowtest: the assertion matcher.  The matchers of transfer.go decide, for *)
(* one event, whether it is of their kind (match) and whether it carries the *)
(* expected name (pass); a check runs one matcher against the part of the    *)
(* event log behind the cursor.                                              *)

NoMatch == [match |-> FALSE, pass |-> FALSE, got |-> EmptyText]

\* A queue matcher that takes an event of its kind with another name for an
\* event that is not of its kind.
QueueMatchSkipsWrong(queueName, evt) ==
    IF evt.type # TransferQueueType \/ evt.name # queueName THEN NoMatch
    ELSE [match |-> TRUE, pass |-> TRUE, got |-> evt.name]

\* A queue matcher that does not look at the type of the event.
QueueMatchAnyType(queueName, evt) ==
    [match |-> TRUE, pass |-> evt.name = queueName, got |-> evt.name]

\* queueTransferMatcher.match
QueueMatch(queueName, evt) ==
    IF evt.type # TransferQueueType THEN NoMatch
    ELSE [match |-> TRUE, pass |-> evt.name = queueName, got |-> evt.name]

\* A flow matcher that passes every flow-transfer event, whatever its name.
FlowMatchAnyName(flowName, evt) ==
    IF evt.type # TransferFlowType THEN NoMatch
    ELSE [match |-> TRUE, pass |-> TRUE, got |-> evt.name]

\* A flow matcher that reports the name it expects in place of the name it observed.
FlowMatchReportsExpected(flowName, evt) ==
    IF evt.type # TransferFlowType THEN NoMatch
    ELSE [match |-> TRUE, pass |-> evt.name = flowName, got |-> flowName]

\* flowTransferMatcher.match
FlowMatch(flowName, evt) ==
    IF evt.type # TransferFlowType THEN NoMatch
    ELSE [match |-> TRUE, pass |-> evt.name = flowName, got |-> evt.name]

QueueTransferMatcher(queueName) == [kind |-> "queue", named |-> queueName]
FlowTransferMatcher(flowName) == [kind |-> "flow", named |-> flowName]

\* matcher.match of either matcher
Match(m, evt) ==
    IF m.kind = "queue" THEN QueueMatch(m.named, evt) ELSE FlowMatch(m.named, evt)

\* The position of the first event from position i on that the matcher applies
\* to, or 0.
RECURSIVE NextApplicable(_, _, _)
NextApplicable(m, log, i) ==
    IF i > Len(log) THEN 0
    ELSE IF Match(m, log[i]).match THEN i
    ELSE NextApplicable(m, log, i + 1)

\* The position of the first event from position i on that the matcher passes, or 0.
RECURSIVE NextPassing(_, _, _)
NextPassing(m, log, i) ==
    IF i > Len(log) THEN 0
    ELSE IF Match(m, log[i]).match /\ Match(m, log[i]).pass THEN i
    ELSE NextPassing(m, log, i + 1)

NothingFound == <<"no matching event found">>

CheckResult(pass, to, at, got) == [pass |-> pass, cursor |-> to, at |-> at, got |-> got]

\* A check in order: the next applicable event behind the cursor is consumed and
\* decides the check, whether it passes or not.
RunOrdered(m, log, c) ==
    LET i == NextApplicable(m, log, c + 1) IN
    IF i = 0 THEN CheckResult(FALSE, c, 0, NothingFound)
    ELSE CheckResult(Match(m, log[i]).pass, i, i, Match(m, log[i]).got)

\* An Unordered check: the log behind the cursor is searched for an event that
\* passes; the cursor stays.
RunUnordered(m, log, c) ==
    LET i == NextPassing(m, log, c + 1) IN
    IF i = 0 THEN CheckResult(FALSE, c, 0, NothingFound)
    ELSE CheckResult(TRUE, c, i, Match(m, log[i]).got)

\* A Never check: it passes when no event behind the cursor passes; the cursor stays.
RunNever(m, log, c) ==
    LET i == NextPassing(m, log, c + 1) IN
    IF i = 0 THEN CheckResult(TRUE, c, 0, EmptyText)
    ELSE CheckResult(FALSE, c, i, Match(m, log[i]).got)

\* testContext.run
RunCheck(m, never, unordered, log, c) ==
    IF never THEN RunNever(m, log, c)
    ELSE IF unordered THEN RunUnordered(m, log, c)
    ELSE RunOrdered(m, log, c)

\* The events of the logs the matcher is run on, and the names asserted.
MatchEvents ==
    { QueueTransferEvent(T("arn:queue/sales"), T("Sales")),
      QueueTransferEvent(T("arn:queue/support"), T("Support")),
      FlowTransferEvent(T("arn:flow/main"), T("main")),
      NumberTransferEvent(T("+441234")) }

MatchLogs == UNION {[1..n -> MatchEvents] : n \in 0..MaxEvents}
QueueNames == {T("Sales")}
FlowNames == {T("main"), T("night")}

InitMatch ==
    /\ SimNew
    /\ NoCallYet
    /\ st = FreshState
    /\ NoModuleTest
    /\ NoGetLinkTest
    /\ NoSubstTest
    /\ NoCalls
    /\ NoLambdas
    /\ evLog \in MatchLogs
    /\ cursor = 0
    /\ checks = <<>>

\* One check of the test: the matcher is run from the cursor and the cursor moves
\* to where the check leaves it.
Check(m, never, unordered) ==
    LET r == RunCheck(m, never, unordered, evLog, cursor) IN
    /\ Len(checks) < MaxChecks
    /\ cursor' = r.cursor
    /\ checks' = Append(checks, [m |-> m, never |-> never, unordered |-> unordered,
                                 from |-> cursor, to |-> r.cursor, at |-> r.at,
                                 pass |-> r.pass, got |-> r.got])
    /\ UNCHANGED <<simVars, callVars, st, testVars, glVars, api, evLog, substVars, calls,
                   lambdaVars>>

\* TransferContext.ToQueue, after Never() and Unordered() as given
ToQueue(named, never, unordered) == Check(QueueTransferMatcher(named), never, unordered)

\* TransferContext.ToFlow, after Never() and Unordered() as given
ToFlow(named, never, unordered) == Check(FlowTransferMatcher(named), never, unordered)

NextMatch ==
    \/ \E named \in QueueNames, never \in BOOLEAN, unordered \in BOOLEAN :
          ToQueue(named, never, unordered)
    \/ \E named \in FlowNames, never \in BOOLEAN, unordered \in BOOLEAN :
          ToFlow(named, never, unordered)

SpecMatch == InitMatch /\ [][NextMatch]_vars

\* The event type a matcher is about, and what it expects of an event.
KindType(m) == IF m.kind = "queue" THEN TransferQueueType ELSE TransferFlowType
Applicable(m, evt) == evt.type = KindType(m)
Expected(m, evt) == evt.type = KindType(m) /\ evt.name = m.named

\* The positions behind position c of the events of the matcher's kind.
ApplicableAfter(m, c) == {i \in (c + 1)..Len(evLog) : Applicable(m, evLog[i])}
ExpectedAfter(m, c) == {i \in (c + 1)..Len(evLog) : Expected(m, evLog[i])}
Least(S) == CHOOSE i \in S : \A j \in S : i <= j

\* The first applicable event of check c has the wrong payload, a later one the
\* expected payload.
WrongThenRight(c) ==
    /\ ApplicableAfter(c.m, c.from) # {}
    /\ ~Expected(c.m, evLog[Least(ApplicableAfter(c.m, c.from))])
    /\ ExpectedAfter(c.m, c.from) # {}

\* C11: on a log in which, behind the cursor, the first event of the matcher's kind
\* has the wrong payload and a later one the expected payload, a check in order
\* fails and the same check with the Unordered modifier passes.
C11_OrderedVsUnordered ==
    \A k \in 1..Len(checks) :
        ~checks[k].never /\ WrongThenRight(checks[k]) =>
            /\ ~checks[k].unordered => ~checks[k].pass
            /\ checks[k].unordered => checks[k].pass

\* The same matcher was run from the same cursor, first Unordered (passing), then
\* in order (failing), on a log with the wrong queue before the right one.
C11_Witness ==
    /\ Len(checks) = 2
    /\ checks[1].m = checks[2].m /\ checks[1].from = checks[2].from
    /\ ~checks[1].never /\ ~checks[2].never
    /\ checks[1].unordered /\ ~checks[2].unordered
    /\ WrongThenRight(checks[2])
    /\ checks[1].pass /\ ~checks[2].pass

\* C12: a check with the Never modifier passes exactly when no event behind the
\* cursor is of the matcher's kind with the given payload; on an empty log it passes.
C12_Never ==
    \A k \in 1..Len(checks) :
        checks[k].never =>
            /\ checks[k].pass <=> ExpectedAfter(checks[k].m, checks[k].from) = {}
            /\ evLog = <<>> => checks[k].pass
            /\ checks[k].to = checks[k].from

\* A Never check failed on an event that is neither the next event nor the next
\* applicable event behind the cursor.
C12_Witness ==
    /\ Len(checks) >= 1
    /\ LET c == checks[Len(checks)] IN
          /\ c.never /\ ~c.pass
          /\ Len(evLog) = 3
          /\ ExpectedAfter(c.m, c.from) = {3}
          /\ ApplicableAfter(c.m, c.from) = {2, 3}

\* The checks in order among the checks run so far, by their position.
OrderedChecks == {k \in 1..Len(checks) : ~checks[k].never /\ ~checks[k].unordered}

\* C20: over a sequence of checks on one log the cursor never decreases; a check in
\* order consumes the next event of its kind behind the cursor, so no event is
\* consumed by two checks, and it moves the cursor past that event also when the
\* event has the wrong payload and the check reports a mismatch with what it got.
C20_CursorMonotone ==
    /\ \A k \in 1..Len(checks) :
          /\ checks[k].from = (IF k = 1 THEN 0 ELSE checks[k - 1].to)
          /\ checks[k].from <= checks[k].to
    /\ cursor = (IF checks = <<>> THEN 0 ELSE checks[Len(checks)].to)
    /\ \A k \in OrderedChecks :
          LET c == checks[k]
              app == ApplicableAfter(c.m, c.from)
          IN  /\ app = {} => ~c.pass /\ c.to = c.from /\ c.at = 0
              /\ app # {} =>
                    /\ c.at = Least(app) /\ c.to = Least(app)
                    /\ c.pass <=> Expected(c.m, evLog[c.at])
                    /\ ~c.pass => c.got = evLog[c.at].name
    /\ \A j, k \in OrderedChecks : j < k /\ checks[j].at # 0 /\ checks[k].at # 0 =>
          checks[j].at < checks[k].at

\* Two checks in order: the first met the wrong queue and consumed it with a
\* mismatch, the second consumed the next queue event and passed.
C20_Witness ==
    /\ Len(checks) = 2
    /\ OrderedChecks = {1, 2}
    /\ checks[1].m.kind = "queue" /\ checks[2].m.kind = "queue"
    /\ ~checks[1].pass /\ checks[1].at = 2 /\ checks[1].got = T("Support")
    /\ checks[2].pass /\ checks[2].at = 3
    /\ cursor = 3

-----------------------------------------------------------------------------
(* Template substitution on its own: every text of up to MaxTokens tokens,  *)
(* resolved against stores in which the keys referred to are present or not *)

SubstTokens == {"hello "} \cup RefTokens
SubstTexts == UNION {[1..n -> SubstTokens] : n \in 0..MaxTokens}

SubstExternals ==
    { EmptyStore,
      [k \in {"digits"} |-> T("1 and 3")],
      [k \in {"digits"} |-> <<"see ", "$.System.Queue.Name">>] }

SubstSystems == { EmptyStore, [k \in {SystemQueueName} |-> T("Sales")] }

SubstStates ==
    { NewState(EmptyText, ext, EmptyStore, sys) : ext \in SubstExternals, sys \in SubstSystems }

InitSubst ==
    /\ SimNew
    /\ NoCallYet
    /\ st \in SubstStates
    /\ NoModuleTest
    /\ NoGetLinkTest
    /\ NoMatcherTest
    /\ NoCalls
    /\ NoLambdas
    /\ sText \in SubstTexts
    /\ sPhase = "ready"
    /\ sOut = EmptyText
    /\ sAgain = EmptyText
    /\ sNs = NoNamespace

\* The text is resolved.
SubstituteOnce ==
    /\ sPhase = "ready"
    /\ sOut' = Substitute(st, sText)
    /\ sPhase' = "once"
    /\ UNCHANGED <<simVars, callVars, st, testVars, glVars, api, matchVars, sText, sAgain,
                   sNs, calls, lambdaVars>>

\* The result is resolved once more.
SubstituteAgain ==
    /\ sPhase = "once"
    /\ sAgain' = Substitute(st, sOut)
    /\ sPhase' = "twice"
    /\ UNCHANGED <<simVars, callVars, st, testVars, glVars, api, matchVars, sText, sOut, sNs,
                   calls, lambdaVars>>

NextSubst == SubstituteOnce \/ SubstituteAgain

SpecSubst == InitSubst /\ [][NextSubst]_vars

\* The store a reference of the given namespace is looked up in.
StoreOf(ns) ==
    CASE ns = NamespaceExternal -> st.external
      [] ns = NamespaceSystem -> st.system
      [] ns = NamespaceUserDefined -> st.contactData
      [] OTHER -> EmptyStore

IsRef(tok) == tok \in RefTokens
KeyPresent(tok) == IsRef(tok) /\ RefKey(tok) \in DOMAIN StoreOf(RefNs(tok))

\* What a token of the text is to become.
Replacement(tok) == IF KeyPresent(tok) THEN StoreOf(RefNs(tok))[RefKey(tok)] ELSE <<tok>>

RECURSIVE Replaced1(_, _)
Replaced1(text, i) ==
    IF i > Len(text) THEN <<>> ELSE Replacement(text[i]) \o Replaced1(text, i + 1)

\* C13: substitution returns a text without references unchanged; it replaces each
\* reference whose key is present in the store of its namespace by the stored value
\* and leaves each reference whose key is absent in place; so a text none of whose
\* references has a present key comes back unchanged, and substituting in that
\* result once more changes nothing.
C13_Substitution ==
    sPhase \in {"once", "twice"} =>
        /\ (\A i \in 1..Len(sText) : ~IsRef(sText[i])) => sOut = sText
        /\ sOut = Replaced1(sText, 1)
        /\ (\A i \in 1..Len(sText) : ~KeyPresent(sText[i])) =>
              /\ sOut = sText
              /\ sPhase = "twice" => sAgain = sOut

\* A text with a literal, a reference with a present key and a reference with an
\* absent key: the second was replaced and the third was left in place.
C13_Witness ==
    /\ sPhase = "twice"
    /\ sText = <<"hello ", "$.External.digits", "$.External.missing">>
    /\ sOut = <<"hello ", "1 and 3", "$.External.missing">>
    /\ sAgain = sOut

-----------------------------------------------------------------------------
(* Hours of operation *)

\* The branch label that answers the hook.
HoursLabel(hook) ==
    IF hook = "error" THEN BranchError
    ELSE IF hook = "always" THEN BranchTrue
    ELSE BranchFalse

-----------------------------------------------------------------------------
(* The call and its driver *)

\* A step in which the call leaves WaitingForInput: the receive returned, with the
\* input of the driver or without input, and the call thread is running again.
C15Resumes ==
    callState = "WaitingForInput" /\ callState' # "WaitingForInput" =>
        /\ callState' = "Running"
        /\ received'.pending
        /\ received'.ok => received'.input \in Inputs
        /\ ~received'.ok => received'.input = EmptyText
        /\ UNCHANGED <<cur, st, runLog, callErr>>

\* C15: a call that waits for input always leaves that state, whether or not the
\* driver ever delivers input; it leaves it only by resuming Running with the
\* input delivered or with the timeout elapsed.
C15_ReceiveReturns ==
    /\ (callState = "WaitingForInput") ~> (callState = "Running" /\ received.pending)
    /\ [][C15Resumes]_vars

\* The call resumed after a timeout, no input having been delivered.
C15_Witness ==
    /\ callState = "Running"
    /\ received.pending /\ ~received.ok
    /\ st.nRecv = 1

\* The runs of the call so far in which a storeUserInput got through its receive.
Received == {k \in 1..Len(runLog) : runLog[k].runner = "storeUserInput" /\ runLog[k].err = NoErr}

\* The receive request of a StoreUserInput block, from its parameters.
RequestOf(m) ==
    [count |-> ParamGet(m.parameters, "MaxDigits").p.value.n,
     timeout |-> Atoi(ParamGet(m.parameters, "Timeout").p.value.s).n,
     terminator |-> IF ParamGet(m.parameters, "TerminatorDigits").ok
                    THEN ParamGet(m.parameters, "TerminatorDigits").p.value.s[1] ELSE "#"]

C16Waiting ==
    callState = "WaitingForInput" =>
        /\ cur \in DOMAIN modules
        /\ modules[cur].type \in {ModuleStoreUserInput, ModuleGetUserInput}
        /\ st.nRecv = Cardinality(Received) + 1
        /\ st.rcv = RequestOf(modules[cur])
        /\ ~received.pending

\* A step that changes the call's state, prompt or log without entering
\* WaitingForInput through a receive leaves the call out of WaitingForInput.
C16Enters ==
    callState # "WaitingForInput" /\ callState' = "WaitingForInput" =>
        /\ callState = "Running"
        /\ st'.nRecv = st.nRecv + 1
        /\ st'.events = st.events
        /\ runLog' = runLog

\* C16: the call is in WaitingForInput only while its current block is a
\* StoreUserInput (or GetUserInput) block whose receive has been requested and has
\* not returned; the state is entered only by a receive, never by a step that
\* finishes a block or emits an event, and a prompt is sent without waiting.
C16_SoleSuspensionPoint ==
    /\ [](C16Waiting)
    /\ [](callState # "WaitingForInput" /\ ~received.pending => st.nRecv = Cardinality(Received))
    /\ [](st.nSend = st.nRecv)
    /\ [][C16Enters]_vars

\* The call waits in the receive of its second StoreUserInput block, after a
\* transfer has emitted an event without the call ever waiting on it.
C16_Witness ==
    /\ callState = "WaitingForInput"
    /\ st.nRecv = 2
    /\ st.events # <<>>

-----------------------------------------------------------------------------
(* The event log of a call *)

IsPrefix(a, b) == Len(a) <= Len(b) /\ SubSeq(b, 1, Len(a)) = a

RECURSIVE EmittedFrom(_)
EmittedFrom(k) == IF k > Len(runLog) THEN <<>> ELSE runLog[k].emitted \o EmittedFrom(k + 1)

\* The type of the event a transfer to the given target emits.
TargetEventType(target) ==
    CASE target = TargetFlow -> TransferFlowType
      [] target = TargetQueue -> TransferQueueType
      [] target = TargetPhoneNumber -> TransferNumberType
      [] OTHER -> ""

\* C18: every step of a call leaves the events already in the log where they are
\* and at most appends to them; the log is the events of the runs of the call in
\* the order of the runs, each event being of the kind of the block that emitted it.
C18_AppendOnly ==
    /\ [][IsPrefix(st.events, st'.events)]_vars
    /\ [](st.events = EmittedFrom(1))
    /\ [](\A k \in 1..Len(runLog) :
             runLog[k].emitted # <<>> =>
                 /\ Len(runLog[k].emitted) = 1
                 /\ runLog[k].runner = "transfer"
                 /\ runLog[k].emitted[1].type = TargetEventType(runLog[k].m.target))

\* A number transfer and then a queue transfer each appended their event.
C18_Witness ==
    st.events = << NumberTransferEvent(T("+441234")),
                   QueueTransferEvent(T("arn:queue/sales"), T("Sales")) >>

-----------------------------------------------------------------------------
(* Setting the simulator up *)

C19StartCall ==
    api' # api /\ api'.op = "StartCall" =>
        IF api'.tel = "" \/ api'.tel \notin DOMAIN telFlow
        THEN /\ api'.err # NoErr
             /\ callState' = "NoCall"
             /\ UNCHANGED <<simVars, callVars, st, lambdaVars>>
        ELSE /\ api'.err = NoErr
             /\ callState' = "Ready"
             /\ cur' = telFlow[api'.tel].start
             /\ st' = NewState(EmptyText, EmptyStore, EmptyStore, EmptyStore)
             /\ UNCHANGED <<simVars, runLog, callErr>>

C19SetStartingFlowFor ==
    api' # api /\ api'.op = "SetStartingFlowFor" =>
        IF api'.flow \notin DOMAIN flows
        THEN api'.err # NoErr /\ telFlow' = telFlow
        ELSE /\ api'.err = NoErr
             /\ DOMAIN telFlow' = DOMAIN telFlow \cup {api'.tel}
             /\ telFlow'[api'.tel] = flows[api'.flow]
             /\ \A tel \in DOMAIN telFlow : tel # api'.tel => telFlow'[tel] = telFlow[tel]

C19Protocol ==
    /\ callState = "NoCall" /\ callState' # "NoCall" =>
          /\ api'.op = "StartCall" /\ api'.err = NoErr
          /\ api'.tel # "" /\ api'.tel \in DOMAIN telFlow
    /\ telFlow' # telFlow => api'.op = "SetStartingFlowFor" /\ api'.err = NoErr

\* C19: StartCall returns an error and starts nothing when the number is empty or
\* no starting flow was set for it, and otherwise starts the call at the start
\* block of the flow set for that number; SetStartingFlowFor returns an error and
\* leaves the mapping of numbers to flows as it was when the flow is not loaded;
\* a call comes into being, and the mapping changes, in no other way.
C19_Configuration ==
    [][C19StartCall /\ C19SetStartingFlowFor /\ C19Protocol]_vars

\* StartCall to a number without a starting flow failed and started nothing,
\* while another number had a starting flow.
C19_Witness ==
    /\ api = ApiCall("StartCall", "+44100", EmptyText, NoStartingFlowErr)
    /\ callState = "NoCall"
    /\ DOMAIN telFlow = {""}

-----------------------------------------------------------------------------
(* Several calls of one simulator.  Each call has its own thread of control  *)
(* and its own connector state; the simulator's configuration is set up      *)
(* before the first call and read by all of them.  steps and inputs are      *)
(* history fields: how many steps the call's thread has taken and what its   *)
(* receives have returned so far.                                            *)

NewCall(tel, start) ==
    [tel |-> tel, state |-> "Ready", cur |-> start, err |-> NoErr, st |-> FreshState,
     received |-> NoRx, runs |-> 0, steps |-> 0, inputs |-> <<>>]

\* The call takes the result r of running its current block.
CallFinish(call, r) ==
    [call EXCEPT !.st = r.st,
                 !.state = IF r.panicked THEN "Crashed"
                           ELSE IF r.err # NoErr \/ r.next = NoModule THEN "Ended"
                           ELSE "Running",
                 !.cur = IF r.panicked \/ r.err # NoErr THEN NoModule ELSE r.next,
                 !.err = IF r.panicked THEN NoErr ELSE r.err,
                 !.received = NoRx,
                 !.runs = @ + 1]

CallModule(call) == GetModule(modules, call.cur).m

\* Whether the thread of the call can take a step.
CanStep(call) ==
    \/ call.state = "Ready"
    \/ /\ call.state = "Running"
       /\ GetModule(modules, call.cur).found
       /\ \/ call.received.pending
          \/ /\ call.runs < MaxRuns
             /\ \/ Receives(CallModule(call), call.st)
                \/ Modelled(MakeRunner(CallModule(call)), CallModule(call))

\* One step of the thread of the call: it starts running, goes on after a receive,
\* blocks in the receive of a storeUserInput, or dispatches and runs a block.
ThreadStep(call) ==
    LET m == CallModule(call)
        stepped == [call EXCEPT !.steps = @ + 1]
    IN  IF call.state = "Ready" THEN [stepped EXCEPT !.state = "Running"]
        ELSE IF call.received.pending
        THEN CallFinish(stepped, SUIStore(m, call.st, EngineConn(call.received),
                                          call.received.input, call.received.ok))
        ELSE IF Receives(m, call.st)
        THEN [stepped EXCEPT !.st = SUIAsk(m, call.st, EngineConn(NoRx)).st,
                             !.state = "WaitingForInput"]
        ELSE CallFinish(stepped, Run(MakeRunner(m), m, call.st, EngineConn(NoRx)))

\* The receive of the waiting call returns (input, ok).
ReceiveReturns(call, input, ok) ==
    [call EXCEPT !.state = "Running",
                 !.received = [input |-> input, ok |-> ok, pending |-> TRUE],
                 !.inputs = Append(@, [input |-> input, ok |-> ok])]

\* The numbers calls are placed to, and the flows they start in.
CallTels == {"+44100", "+44200"}

LoadedFlows == [name \in {f.name : f \in FlowInputs} |->
                   Dedeprecate(CHOOSE f \in FlowInputs : f.name = name)]

LoadedModules ==
    [id \in UNION {{f.modules[i].id : i \in 1..Len(f.modules)} : f \in FlowInputs} |->
        LET f == CHOOSE g \in FlowInputs : \E i \in 1..Len(g.modules) : g.modules[i].id = id
        IN  DedeprecateModule(f.modules[CHOOSE i \in 1..Len(f.modules) : f.modules[i].id = id])]

\* The simulator set up: every flow loaded, a starting flow for each number.
InitCalls ==
    /\ flows = LoadedFlows
    /\ modules = LoadedModules
    /\ telFlow = [tel \in CallTels |->
                     IF tel = "+44100" THEN LoadedFlows[MainFlow.name]
                     ELSE LoadedFlows[QueueFlow.name]]
    /\ encrypt \in EncryptionHooks
    /\ isInHours = "always"
    /\ NoCallYet
    /\ st = FreshState
    /\ NoModuleTest
    /\ NoGetLinkTest
    /\ NoMatcherTest
    /\ NoSubstTest
    /\ NoLambdas
    /\ calls = <<>>

\* A StartCall that hands the new call the connector state of the call before it.
StartAnotherCallSharing(destNumber) ==
    /\ Len(calls) < MaxCalls
    /\ destNumber \in DOMAIN telFlow
    /\ calls' = Append(calls, [NewCall(destNumber, telFlow[destNumber].start) EXCEPT
                                  !.st = IF calls = <<>> THEN FreshState
                                         ELSE calls[Len(calls)].st])
    /\ UNCHANGED <<simVars, callVars, st, testVars, glVars, api, matchVars, substVars, lambdaVars>>

\* Simulator.StartCall, once more: each call is created with a state of its own.
StartAnotherCall(destNumber) ==
    /\ Len(calls) < MaxCalls
    /\ destNumber # ""
    /\ destNumber \in DOMAIN telFlow
    /\ calls' = Append(calls, NewCall(destNumber, telFlow[destNumber].start))
    /\ UNCHANGED <<simVars, callVars, st, testVars, glVars, api, matchVars, substVars, lambdaVars>>

\* The thread of call c takes a step.
CallStep(c) ==
    /\ CanStep(calls[c])
    /\ calls' = [calls EXCEPT ![c] = ThreadStep(calls[c])]
    /\ UNCHANGED <<simVars, callVars, st, testVars, glVars, api, matchVars, substVars, lambdaVars>>

\* The driver delivers input to call c.
CallDeliver(c, input) ==
    /\ calls[c].state = "WaitingForInput"
    /\ calls' = [calls EXCEPT ![c] = ReceiveReturns(calls[c], input, TRUE)]
    /\ UNCHANGED <<simVars, callVars, st, testVars, glVars, api, matchVars, substVars, lambdaVars>>

\* The timeout of the receive of call c elapses.
CallTimeout(c) ==
    /\ calls[c].state = "WaitingForInput"
    /\ calls' = [calls EXCEPT ![c] = ReceiveReturns(calls[c], EmptyText, FALSE)]
    /\ UNCHANGED <<simVars, callVars, st, testVars, glVars, api, matchVars, substVars, lambdaVars>>

NextCalls ==
    \/ \E tel \in CallTels : StartAnotherCall(tel)
    \/ \E c \in 1..Len(calls) : CallStep(c)
    \/ \E c \in 1..Len(calls), input \in Inputs : CallDeliver(c, input)
    \/ \E c \in 1..Len(calls) : CallTimeout(c)

SpecCalls == InitCalls /\ [][NextCalls]_vars

\* The call as it is after n steps of its thread when it runs alone and its
\* receives return, one after the other, what `inputs` says.
RECURSIVE Alone(_, _, _)
Alone(call, inputs, n) ==
    IF call.state = "WaitingForInput" /\ inputs # <<>>
    THEN Alone(ReceiveReturns(call, Head(inputs).input, Head(inputs).ok), Tail(inputs), n)
    ELSE IF n = 0 THEN call
    ELSE Alone(ThreadStep(call), inputs, n - 1)

\* What a call alone would be by now: same number, same steps, same input.
AloneLike(call) ==
    Alone(NewCall(call.tel, telFlow[call.tel].start), call.inputs, call.steps)

\* A step changes at most one call.
C17OneCall ==
    \A c, d \in 1..Len(calls) :
        c # d /\ calls'[c] # calls[c] => calls'[d] = calls[d]

-----------------------------------------------------------------------------
(* The three answers of a matcher *)

\* The matchers the checks of the test have run.
MatchersRun == {checks[k].m : k \in DOMAIN checks}

\* The answer of a matcher for an event that is not of its kind.
NotApplicable(r) == ~r.match /\ ~r.pass /\ r.got = EmptyText

\* C21: for every event, the queue-transfer matcher and the flow-transfer matcher
\* answer not-applicable (match false, pass false, no observed value) when the
\* event is of another kind; for an event of their own kind they answer match
\* true, pass true exactly when the name of the event's queue (flow) equals the
\* expected name, and report the observed name; pass true never comes with
\* match false.
C21_MatcherAnswers ==
    \A m \in MatchersRun : \A i \in DOMAIN evLog :
        LET evt == evLog[i]
            r == Match(m, evt)
        IN  /\ evt.type # KindType(m) => NotApplicable(r)
            /\ evt.type = KindType(m) =>
                  /\ r.match
                  /\ r.pass <=> (evt.name = m.named)
                  /\ r.got = evt.name
            /\ r.pass => r.match

\* Both matchers have run on a log that holds, for each of them, an event of
\* another kind, and that holds an event of the kind with the expected name and
\* one of the kind with another name.
C21_Witness ==
    /\ \E m \in MatchersRun : m.kind = "queue"
    /\ \E m \in MatchersRun : m.kind = "flow" /\ m.named = T("night")
    /\ \E i \in DOMAIN evLog : evLog[i].type = TransferQueueType /\ evLog[i].name = T("Sales")
    /\ \E i \in DOMAIN evLog : evLog[i].type = TransferQueueType /\ evLog[i].name = T("Support")
    /\ \E i \in DOMAIN evLog : evLog[i].type = TransferFlowType /\ evLog[i].name = T("main")

-----------------------------------------------------------------------------
(* Branch selection of the runners *)

\* The branch label the run of the test selects, as a set: empty when the run
\* fails or ends the call without looking a branch up.  Of setQueue, setAttributes
\* and transfer.
SelectedLabels ==
    IF tRunner = "setQueue" /\ tMod.type = ModuleSetQueue
    THEN IF TP("Queue").ok /\ TP("Queue").p.value.t = "string" THEN {BranchSuccess} ELSE {}
    ELSE IF tRunner = "setAttributes" /\ tMod.type = ModuleSetAttributes
    THEN IF AttributesDecodable(tMod.parameters) THEN {BranchSuccess} ELSE {}
    ELSE IF tRunner = "transfer" /\ tMod.type = ModuleTransfer
    THEN CASE tMod.target = TargetQueue ->
                 IF SystemQueueName \in DOMAIN tPre.system /\ SystemQueueARN \in DOMAIN tPre.system
                 THEN {} ELSE {BranchError}
           [] tMod.target = TargetFlow ->
                 IF TP("ContactFlowId").ok /\ NamedFlows = {} THEN {BranchError} ELSE {}
           [] tMod.target = TargetPhoneNumber ->
                 IF /\ TP("BlindTransfer").ok /\ TP("BlindTransfer").p.value.t = "bool"
                    /\ TP("PhoneNumber").ok /\ TP("PhoneNumber").p.value.t = "string"
                    /\ ~TP("BlindTransfer").p.value.b
                 THEN {BranchSuccess} ELSE {}
           [] OTHER -> {}
    ELSE {}

\* The block declares a branch with the label.
Declares(m, label) == \E i \in 1..Len(m.branches) : m.branches[i].condition = label

\* C22: whenever a runner selects a branch label that the block does not declare
\* (SetQueue or SetAttributes without a Success branch, a Queue transfer with no
\* queue set and no Error branch, a Flow transfer to a flow that is not loaded and
\* no Error branch, a PhoneNumber transfer that is not blind without a Success
\* branch), the run returns no successor and no error.
C22_UndeclaredBranch ==
    tPhase = "done" =>
        \A label \in SelectedLabels :
            ~Declares(tMod, label) => tNext = NoModule /\ tErr = NoErr

\* A SetQueue of a block without branches has stored its queue and returned
\* neither a successor nor an error.
C22_Witness ==
    /\ TestDone("setQueue")
    /\ SelectedLabels = {BranchSuccess}
    /\ tMod.branches = <<>>
    /\ st.system # tPre.system
    /\ tNext = NoModule /\ tErr = NoErr

-----------------------------------------------------------------------------
(* A Flow transfer that cannot fall back *)

\* The run of the test was a Flow transfer whose lookup of the flow failed, of a
\* block that declares no Error branch.
FlowLookupFailedNoError ==
    /\ IsFlowTransfer
    /\ NamedFlows = {}
    /\ ~Declares(tMod, BranchError)

\* C23: a Flow transfer whose flow-start lookup fails on a block that declares no
\* Error branch fails with a fatal error for the owner of the call; it does not
\* end the call as a normal termination (no successor and no error).
C23_FlowTransferFatal ==
    FlowLookupFailedNoError => tErr # NoErr


\* The run of such a transfer has returned neither a successor nor an error and
\* has left the connector state as it was.
C23_Witness ==
    /\ FlowLookupFailedNoError
    /\ tNext = NoModule /\ tErr = NoErr
    /\ st = tPre

-----------------------------------------------------------------------------
(* Missing and ill-typed parameters *)

\* The block of the test, of the type of its runner, lacks a parameter the
\* runner requires or carries it with a value of the wrong type.
BadParameter ==
    /\ tMod.type = RunnerType(tRunner)
    /\ CASE tRunner = "storeUserInput" -> ~SUIValid
         [] tRunner = "setQueue" -> ~(TP("Queue").ok /\ TP("Queue").p.value.t = "string")
         [] tRunner = "setAttributes" -> ~AttributesDecodable(tMod.parameters)
         [] tRunner = "transfer" /\ tMod.target = TargetFlow ->
               ~(TP("ContactFlowId").ok /\ TP("ContactFlowId").p.value.t = "string")
         [] tRunner = "transfer" /\ tMod.target = TargetPhoneNumber ->
               ~(/\ TP("BlindTransfer").ok /\ TP("BlindTransfer").p.value.t = "bool"
                 /\ TP("PhoneNumber").ok /\ TP("PhoneNumber").p.value.t = "string")
         [] OTHER -> FALSE

\* The error values that report a missing or invalid parameter.
ParameterErrors ==
    {AtoiErr} \cup UNION {{MissingParamErr(name), MissingNamedParamErr(name)} :
                             name \in {"Text", "Timeout", "MaxDigits", "EncryptEntry", "Queue",
                                       "Attribute", "ContactFlowId", "BlindTransfer",
                                       "PhoneNumber"}}

\* C24: for every runner, a required parameter that is missing or whose value has
\* the wrong type makes the run fail with a missing/invalid-parameter error value,
\* never a crash, and no successor, before any effect: no prompt sent, no receive
\* requested, no event emitted, nothing written to a store.
C24_InvalidParameter ==
    tPhase = "done" /\ BadParameter =>
        /\ tErr \in ParameterErrors
        /\ tNext = NoModule
        /\ st = tPre

\* A SetQueue whose Queue parameter is present with a value that is not a text
\* has crashed in the type assertion, having written nothing.
C24_Witness ==
    /\ TestDone("setQueue")
    /\ TP("Queue").ok /\ TP("Queue").p.value.t = "number"
    /\ tErr = PanicErr
    /\ tNext = NoModule
    /\ st = tPre

-----------------------------------------------------------------------------
(* What SetQueue and SetAttributes write and what they leave alone *)

\* The run of the test was a SetQueue of a block with a textual Queue parameter.
IsSetQueue ==
    /\ TestDone("setQueue")
    /\ TP("Queue").ok /\ TP("Queue").p.value.t = "string"

\* C25: SetQueue with a (textual) Queue parameter writes the value of the parameter
\* as the system Queue.ARN and its resource name as the system Queue.Name, both,
\* over whatever an earlier SetQueue stored; it changes no other system key, no
\* attribute and no external value, emits no event, and follows Success.
C25_SetQueueFrame ==
    IsSetQueue =>
        /\ tErr = NoErr
        /\ tNext = FirstBranch(tMod.branches, BranchSuccess)
        /\ DOMAIN st.system = DOMAIN tPre.system \cup {SystemQueueARN, SystemQueueName}
        /\ st.system[SystemQueueARN] = TP("Queue").p.value.s
        /\ st.system[SystemQueueName] = TP("Queue").p.resourceName
        /\ \A k \in DOMAIN tPre.system \ {SystemQueueARN, SystemQueueName} :
              st.system[k] = tPre.system[k]
        /\ st.contactData = tPre.contactData
        /\ st.external = tPre.external
        /\ st.events = tPre.events
        /\ st = [tPre EXCEPT !.system = st.system]

\* A SetQueue has replaced the queue that an earlier SetQueue stored and has
\* followed the Success branch of its block.
C25_Witness ==
    /\ IsSetQueue
    /\ SystemQueueARN \in DOMAIN tPre.system /\ SystemQueueName \in DOMAIN tPre.system
    /\ tPre.system[SystemQueueName] = T("Sales")
    /\ st.system[SystemQueueName] = T("Support")
    /\ st.system[SystemQueueARN] = T("arn:queue/support")
    /\ tNext = "n1"


\* The pairs the Attribute parameters of the block decode to, and their keys.
ListedPairs == AttributePairs(tPre, tMod.parameters, 1)
ListedKeys == {ListedPairs[i].K : i \in 1..Len(ListedPairs)}

\* The value of the last pair of the list with the key.
LastValue(key) ==
    ListedPairs[CHOOSE i \in 1..Len(ListedPairs) :
                   /\ ListedPairs[i].K = key
                   /\ \A j \in (i + 1)..Len(ListedPairs) : ListedPairs[j].K # key].V

\* C26: SetAttributes writes every key/value pair of its Attribute list into the
\* attribute (contact data) store in list order: afterwards each listed key maps to
\* the value of the last pair with that key; attributes with keys not in the list,
\* the system store and the external store are unchanged, and the block follows
\* Success; if decoding the parameters fails, no attribute is written.
C26_SetAttributesFrame ==
    TestDone("setAttributes") =>
        /\ AttributesDecodable(tMod.parameters) =>
              /\ tErr = NoErr
              /\ tNext = FirstBranch(tMod.branches, BranchSuccess)
              /\ DOMAIN st.contactData = DOMAIN tPre.contactData \cup ListedKeys
              /\ \A key \in ListedKeys : st.contactData[key] = LastValue(key)
              /\ \A key \in DOMAIN tPre.contactData \ ListedKeys :
                    st.contactData[key] = tPre.contactData[key]
              /\ st = [tPre EXCEPT !.contactData = st.contactData]
        /\ ~AttributesDecodable(tMod.parameters) =>
              /\ tErr # NoErr
              /\ tNext = NoModule
              /\ st = tPre

\* A SetAttributes whose list names one key twice has run on a call that had that
\* key and another one: the key holds the value of the later pair, the other
\* attribute is as it was, and a key read from the external store is written.
C26_Witness ==
    /\ TestDone("setAttributes")
    /\ Len(ListedPairs) = 3
    /\ tPre.contactData = TestContactData
    /\ st.contactData["a"] = T("2")
    /\ st.contactData["b"] = T("1 and 3")
    /\ st.contactData["z"] = T("9")
    /\ tNext = "n1"

-----------------------------------------------------------------------------
(* Parameter resolution: a parameter is resolved against a connector state *)

\* The raw values of the parameters resolved: keys that are present, absent or
\* composite, and texts with and without references.
ResolveValues ==
    { T("digits"), T("missing"), T("vip"), T(SystemQueueName), T("hello "),
      <<"hello ", "$.External.digits">>, <<"$.External.missing">>,
      <<"$.System.Queue.Name", "hello ", "$.External.digits">> }

ResolveNamespaces == {NoNamespace, NamespaceExternal, NamespaceSystem, NamespaceUserDefined}

ResolveAttributes == {EmptyStore, [k \in {"vip"} |-> <<"yes ", "$.External.digits">>]}

ResolveEvents == {<<>>, <<QueueTransferEvent(T("arn:queue/sales"), T("Sales"))>>}

ResolveStates ==
    { [NewState(EmptyText, ext, cd, sys) EXCEPT !.events = evts] :
        ext \in SubstExternals, cd \in ResolveAttributes, sys \in SubstSystems,
        evts \in ResolveEvents }

InitResolve ==
    /\ SimNew
    /\ NoCallYet
    /\ st \in ResolveStates
    /\ NoModuleTest
    /\ NoGetLinkTest
    /\ NoMatcherTest
    /\ NoCalls
    /\ NoLambdas
    /\ sText \in ResolveValues
    /\ sNs \in ResolveNamespaces
    /\ sPhase = "ready"
    /\ sOut = EmptyText
    /\ sAgain = EmptyText

\* The parameter under resolution.
ResolvedParam == Param("Text", StrV(sText), sNs, EmptyText)

\* The parameter is resolved against the connector state.
ResolveParameter ==
    /\ sPhase = "ready"
    /\ sOut' = ResolveText(st, ResolvedParam)
    /\ st' = AfterResolveText(st, ResolvedParam)
    /\ sPhase' = "resolved"
    /\ UNCHANGED <<simVars, callVars, testVars, glVars, api, matchVars, sText, sAgain, sNs,
                   calls, lambdaVars>>

NextResolve == ResolveParameter

SpecResolve == InitResolve /\ [][NextResolve]_vars

-----------------------------------------------------------------------------
(* Lambdas: registration by name, invocation by ARN.  Names and ARNs are     *)
(* sequences of fragments; a name is contained in an ARN when its fragments  *)
(* occur in the ARN one after the other.                                     *)

MaxInvokes == 2

\* strings.Contains(arn, name)
Contains(arn, name) ==
    \E i \in 0..(Len(arn) - Len(name)) : SubSeq(arn, i + 1, i + Len(name)) = name

\* The names handlers are registered under, the handlers, and the ARNs invoked.
LambdaNames == { <<"lookup">>, <<"prod-", "lookup">>, <<"billing">> }
Handlers == {"h1", "h2"}
LambdaArns ==
    { <<"arn:aws:lambda:", "prod-", "lookup", "-v2">>,
      <<"arn:aws:lambda:", "dev-", "lookup">>,
      <<"arn:aws:lambda:", "audit">> }

NoHandler == "nil"
UnknownLambdaErr(arn) == <<"unknown lambda:">> \o arn

\* The registered names that occur in the ARN.
MatchingNames(registry, arn) == {k \in DOMAIN registry : Contains(arn, k)}

\* simulatorConnector.GetLambda: the handlers it can return.  It ranges over the
\* map of lambdas, whose order Go does not fix, and returns the handler of the
\* first name that the ARN contains; nil when there is none.
GetLambda(registry, arn) ==
    IF MatchingNames(registry, arn) = {} THEN {NoHandler}
    ELSE {registry[k] : k \in MatchingNames(registry, arn)}

InitLambda ==
    /\ SimNew
    /\ NoCallYet
    /\ st = FreshState
    /\ NoModuleTest
    /\ NoGetLinkTest
    /\ NoMatcherTest
    /\ NoSubstTest
    /\ NoCalls
    /\ lambdas = EmptyStore
    /\ invoked = <<>>

\* Simulator.RegisterLambda with a handler that validateLambda accepts.  Handlers
\* are registered before the first invocation, as RegisterLambda asks of its caller.
RegisterLambda(name, fn) ==
    /\ invoked = <<>>
    /\ lambdas' = MapSet(lambdas, name, fn)
    /\ UNCHANGED <<simVars, callVars, st, testVars, glVars, api, matchVars, substVars, calls,
                   invoked>>

\* simulatorConnector.InvokeLambda: the handler GetLambda returns is run, or the
\* invocation fails without running one.
InvokeLambda(named) ==
    /\ Len(invoked) < MaxInvokes
    /\ \E fn \in GetLambda(lambdas, named) :
          invoked' = Append(invoked,
                            [arn |-> named, registry |-> lambdas, fn |-> fn,
                             err |-> IF fn = NoHandler THEN UnknownLambdaErr(named)
                                     ELSE NoErr])
    /\ UNCHANGED <<simVars, callVars, st, testVars, glVars, api, matchVars, substVars, calls,
                   lambdas>>

NextLambda ==
    \/ \E name \in LambdaNames, fn \in Handlers : RegisterLambda(name, fn)
    \/ \E named \in LambdaArns : InvokeLambda(named)

SpecLambda == InitLambda /\ [][NextLambda]_vars

\* The handlers registered under a name that the ARN of the invocation contains.
HandlersFor(e) == {e.registry[k] : k \in MatchingNames(e.registry, e.arn)}

\* C28: an invocation by ARN runs a handler whose registered name is a substring
\* of the ARN; when no registered name is a substring of the ARN it returns an
\* "unknown lambda" transport error and runs no handler; and for a fixed set of
\* registered names and a fixed ARN the handler chosen is always the same one,
\* also when several registered names are substrings of the ARN.
C28_LambdaByArn ==
    /\ \A i \in DOMAIN invoked :
          LET e == invoked[i] IN
          /\ HandlersFor(e) # {} => e.fn \in HandlersFor(e) /\ e.err = NoErr
          /\ HandlersFor(e) = {} => e.fn = NoHandler /\ e.err = UnknownLambdaErr(e.arn)
    /\ \A i, j \in DOMAIN invoked :
          invoked[i].arn = invoked[j].arn /\ invoked[i].registry = invoked[j].registry
             => invoked[i].fn = invoked[j].fn

\* Two invocations of one ARN with the same handlers registered, two of them under
\* names the ARN contains, ran different handlers.
C28_Witness ==
    /\ Len(invoked) = 2
    /\ invoked[1].arn = invoked[2].arn
    /\ invoked[1].registry = invoked[2].registry
    /\ Cardinality(MatchingNames(invoked[1].registry, invoked[1].arn)) = 2
    /\ invoked[1].fn # invoked[2].fn
    /\ invoked[1].err = NoErr /\ invoked[2].err = NoErr

====
